---- MODULE Spec2Model ----
(***************************************************************************)
(* A model of the lecture-retrieval and response-selection core of Iris:   *)
(*   - merge_retrieved_chunks          (app/retrieval/lecture_retrieval.py) *)
(*   - LectureRetrieval.retrieval_pipeline                      (same file) *)
(*   - TutorChatPipeline.__call__, choose_best_response and the two        *)
(*     sub-pipeline branches     (app/pipeline/chat/tutor_chat_pipeline.py) *)
(* Each part has its own specification over the shared variables; the      *)
(* variables of the parts a specification does not exercise stay idle.     *)
(***************************************************************************)
EXTENDS Integers, Sequences, FiniteSets, TLC

VARIABLES
    \* merge_retrieved_chunks: its two arguments and its return value
    basic_retrieved_lecture_chunks,
    hyde_retrieved_lecture_chunks,
    merged_chunks,
    m_pc,
    \* LectureRetrieval.retrieval_pipeline
    r_pc,
    response,
    response_hyde,
    selected_chunks_index,
    r_result,
    r_exc,
    r_raised_in,
    course_id,
    result_limit,
    chat_history,
    course_language,
    rewritten_query,
    hypothetical_answer_query,
    r_calls,
    \* TutorChatPipeline.__call__ (one invocation of a freshly built pipeline)
    t_pc,
    dto_submission,
    lecture_chat_response,
    tutor_chat_response,
    lecture_target,
    tutor_target,
    lecture_chat_thread,
    tutor_chat_thread,
    lecture_branch,
    lecture_runner,
    tutor_branch,
    tutor_runner,
    callbacks,
    writes,
    paragraphs,
    paragraph_index,
    chosen_paragraph,
    t_exc,
    t_raised_in,
    \* OpenAIChatModel.chat (one call)
    c_pc,
    response_format,
    tools,
    attempt,
    provider_calls,
    c_log,
    sleeps,
    c_exc,
    \* the pipeline-run endpoints and their workers, per request
    e_pc,
    route,
    thread_starts,
    http_response,
    w_pc,
    w_runner,
    pipeline_runner,
    w_callbacks,
    w_captured,
    pipeline_raised,
    \* LectureRetrieval.rewrite_student_query (one call)
    q_pc,
    q_history,
    q_prompt,
    q_llm_calls,
    q_result,
    \* the /api/v1/messages and /api/v2/messages routes (one request)
    x_pc,
    x_route,
    preferred_model,
    x_query,
    x_exc,
    x_response,
    \* CourseChatPipeline.__call__ (one invocation of a freshly built pipeline)
    k_pc,
    lecture_tool,
    retrieved_paragraphs,
    k_tool_runs,
    k_out,
    k_cited,
    k_callbacks

mergeVars == <<basic_retrieved_lecture_chunks, hyde_retrieved_lecture_chunks,
               merged_chunks, m_pc>>
\* the arguments of retrieval_pipeline that vary
r_args == <<course_id, result_limit, chat_history>>
\* its three text locals
r_texts == <<course_language, rewritten_query, hypothetical_answer_query>>
retrievalVars == <<r_pc, response, response_hyde, selected_chunks_index,
                   r_result, r_exc, r_raised_in, r_args, r_texts, r_calls>>
slotVars == <<lecture_chat_response, tutor_chat_response, writes>>
threadVars == <<lecture_target, tutor_target, lecture_chat_thread, tutor_chat_thread>>
branchVars == <<lecture_branch, lecture_runner, tutor_branch, tutor_runner>>
chooseVars == <<paragraphs, paragraph_index, chosen_paragraph>>
excVars == <<t_exc, t_raised_in>>
tutorVars == <<t_pc, dto_submission, slotVars, threadVars, branchVars, callbacks,
               chooseVars, excVars>>
chatVars == <<c_pc, response_format, tools, attempt, provider_calls, c_log,
              sleeps, c_exc>>
\* the LLM client and the web layer, idle while the pipelines are exercised
endpointVars == <<e_pc, route, thread_starts, http_response>>
workerVars == <<w_pc, w_runner, pipeline_runner, w_callbacks, w_captured, pipeline_raised>>
rewriteVars == <<q_pc, q_history, q_prompt, q_llm_calls, q_result>>
\* the parts added after the pipelines, idle while another part is exercised
messagesVars == <<x_pc, x_route, preferred_model, x_query, x_exc, x_response>>
courseVars == <<k_pc, lecture_tool, retrieved_paragraphs, k_tool_runs, k_out, k_cited,
                k_callbacks>>
laterVars == <<rewriteVars, messagesVars, courseVars>>
serviceVars == <<chatVars, endpointVars, workerVars, laterVars>>
vars == <<mergeVars, retrievalVars, tutorVars, serviceVars>>

----------------------------------------------------------------------------
(* Bounds of the model *)

\* chunk identifiers are 1..MaxId
MaxId == 2
\* longest list of chunks handed to merge_retrieved_chunks / returned by a search
MaxLen == 2
\* longest list of indices the reranker returns
MaxSel == 2

ChunkIds == 1..MaxId
\* property bags, abstracted to their page text
Props == {"old", "new"}
Chunks == [id : ChunkIds, properties : Props]

RECURSIVE SeqsUpTo(_, _)
SeqsUpTo(S, n) ==
    IF n = 0 THEN {<<>>}
    ELSE LET shorter == SeqsUpTo(S, n - 1)
         IN  shorter \cup {Append(s, x) : s \in {t \in shorter : Len(t) = n - 1}, x \in S}

----------------------------------------------------------------------------
(* Python dict: insertion-ordered keys and a value per key *)

EmptyDict == [keys |-> <<>>, vals |-> <<>>]

DictHas(d, k) == \E i \in 1..Len(d.keys) : d.keys[i] = k

DictIndex(d, k) == CHOOSE i \in 1..Len(d.keys) : d.keys[i] = k

\* a variant of d[k] = v in which an existing key keeps its old value
DictSetKeepFirst(d, k, v) ==
    IF DictHas(d, k)
    THEN d
    ELSE [keys |-> Append(d.keys, k), vals |-> Append(d.vals, v)]

\* a variant of d[k] = v in which an overwritten key moves to the end
DictSetMoveToEnd(d, k, v) ==
    LET keep == {i \in 1..Len(d.keys) : d.keys[i] # k}
        F[i \in 0..Len(d.keys)] ==
            IF i = 0 THEN EmptyDict
            ELSE IF i \in keep
                 THEN [keys |-> Append(F[i-1].keys, d.keys[i]),
                       vals |-> Append(F[i-1].vals, d.vals[i])]
                 ELSE F[i-1]
        rest == F[Len(d.keys)]
    IN  [keys |-> Append(rest.keys, k), vals |-> Append(rest.vals, v)]

\* a variant of d[k] = v that keeps every assignment as an entry of its own
DictSetAlwaysAppend(d, k, v) ==
    [keys |-> Append(d.keys, k), vals |-> Append(d.vals, v)]

\* d[k] = v : a new key is appended, an existing key keeps its position
DictSet(d, k, v) ==
    IF DictHas(d, k)
    THEN [keys |-> d.keys, vals |-> [d.vals EXCEPT ![DictIndex(d, k)] = v]]
    ELSE [keys |-> Append(d.keys, k), vals |-> Append(d.vals, v)]

\* for chunk in chunks: d[chunk["id"]] = chunk["properties"]
RECURSIVE InsertAll(_, _)
InsertAll(d, chunks) ==
    IF chunks = <<>> THEN d
    ELSE InsertAll(DictSet(d, Head(chunks).id, Head(chunks).properties), Tail(chunks))

\* [properties for uuid, properties in merged_chunks.items()]
DictValues(d) == d.vals

merge_retrieved_chunks(basic, hyde) ==
    DictValues(InsertAll(InsertAll(EmptyDict, basic), hyde))

----------------------------------------------------------------------------
(* Specification SpecMerge: merge_retrieved_chunks applied to bounded inputs *)

MergeIdle ==
    /\ basic_retrieved_lecture_chunks = <<>>
    /\ hyde_retrieved_lecture_chunks = <<>>
    /\ merged_chunks = <<>>
    /\ m_pc = "idle"

RetrievalIdle ==
    /\ r_pc = "idle"
    /\ response = <<>>
    /\ response_hyde = <<>>
    /\ selected_chunks_index = <<>>
    /\ r_result = <<>>
    /\ r_exc = "none"
    /\ r_raised_in = "none"
    /\ course_id = <<>>
    /\ result_limit = 0
    /\ chat_history = <<>>
    /\ course_language = "unset"
    /\ rewritten_query = "unset"
    /\ hypothetical_answer_query = "unset"
    /\ r_calls = <<>>

TutorIdle ==
    /\ t_pc = "idle"
    /\ dto_submission = FALSE
    /\ lecture_chat_response = "unset"
    /\ tutor_chat_response = "unset"
    /\ lecture_target = "unset"
    /\ tutor_target = "unset"
    /\ lecture_chat_thread = "unborn"
    /\ tutor_chat_thread = "unborn"
    /\ lecture_branch = "idle"
    /\ lecture_runner = "none"
    /\ tutor_branch = "idle"
    /\ tutor_runner = "none"
    /\ callbacks = <<>>
    /\ writes = <<>>
    /\ paragraphs = <<>>
    /\ paragraph_index = <<>>
    /\ chosen_paragraph = "unset"
    /\ t_exc = "none"
    /\ t_raised_in = "none"

ChatIdle ==
    /\ c_pc = "idle"
    /\ response_format = "TEXT"
    /\ tools = FALSE
    /\ attempt = 0
    /\ provider_calls = <<>>
    /\ c_log = <<>>
    /\ sleeps = <<>>
    /\ c_exc = "none"

\* requests are numbered 1..MaxRequests
MaxRequests == 2
Requests == 1..MaxRequests

\* no HTTP response sent yet
NoResponse == [status |-> "none", body |-> "none"]

WorkerIdle ==
    /\ e_pc = [q \in Requests |-> "idle"]
    /\ route = [q \in Requests |-> "none"]
    /\ thread_starts = [q \in Requests |-> 0]
    /\ http_response = [q \in Requests |-> NoResponse]
    /\ w_pc = [q \in Requests |-> "unborn"]
    /\ w_runner = [q \in Requests |-> "none"]
    /\ pipeline_runner = [q \in Requests |-> "none"]
    /\ w_callbacks = [q \in Requests |-> <<>>]
    /\ w_captured = [q \in Requests |-> <<>>]
    /\ pipeline_raised = [q \in Requests |-> FALSE]

\* no prompt built yet
NoPrompt == [num_messages |-> 0, messages_formatted |-> <<>>,
             student_query |-> "unset", course_language |-> "unset"]

RewriteIdle ==
    /\ q_pc = "idle"
    /\ q_history = <<>>
    /\ q_prompt = NoPrompt
    /\ q_llm_calls = <<>>
    /\ q_result = "unset"

\* an exception: its class and its message; no exception in flight
Exc(class, message) == [class |-> class, message |-> message]
NoExc == Exc("none", "none")
\* an HTTP answer: status code, error type and error message
Http(code, type, msg) == [status |-> code, type |-> type, msg |-> msg]

MessagesIdle ==
    /\ x_pc = "idle"
    /\ x_route = "none"
    /\ preferred_model = "none"
    /\ x_query = NoExc
    /\ x_exc = NoExc
    /\ x_response = Http(0, "none", "none")

CourseIdle ==
    /\ k_pc = "idle"
    /\ lecture_tool = FALSE
    /\ retrieved_paragraphs = <<>>
    /\ k_tool_runs = <<>>
    /\ k_out = "None"
    /\ k_cited = FALSE
    /\ k_callbacks = <<>>

LaterIdle == RewriteIdle /\ MessagesIdle /\ CourseIdle

ServiceIdle == ChatIdle /\ WorkerIdle /\ LaterIdle

MergeInit ==
    /\ basic_retrieved_lecture_chunks \in SeqsUpTo(Chunks, MaxLen)
    /\ hyde_retrieved_lecture_chunks \in SeqsUpTo(Chunks, MaxLen)
    /\ merged_chunks = <<>>
    /\ m_pc = "called"
    /\ RetrievalIdle
    /\ TutorIdle
    /\ ServiceIdle

MergeCall ==
    /\ m_pc = "called"
    /\ merged_chunks' = merge_retrieved_chunks(basic_retrieved_lecture_chunks,
                                               hyde_retrieved_lecture_chunks)
    /\ m_pc' = "returned"
    /\ UNCHANGED <<basic_retrieved_lecture_chunks, hyde_retrieved_lecture_chunks>>
    /\ UNCHANGED <<retrievalVars, tutorVars, serviceVars>>

MergeNext == MergeCall

SpecMerge == MergeInit /\ [][MergeNext]_vars

----------------------------------------------------------------------------
(* Reference notions the merge claims are stated with *)

IdsOf(chunks) == {chunks[i].id : i \in 1..Len(chunks)}

\* the properties of the last chunk of the list that carries id k
LastProps(chunks, k) ==
    chunks[CHOOSE i \in 1..Len(chunks) :
              /\ chunks[i].id = k
              /\ \A j \in (i+1)..Len(chunks) : chunks[j].id # k].properties

\* the ids of A followed by B, each kept at its first occurrence only
RECURSIVE FirstSeen(_, _)
FirstSeen(chunks, seen) ==
    IF chunks = <<>> THEN <<>>
    ELSE IF Head(chunks).id \in seen
         THEN FirstSeen(Tail(chunks), seen)
         ELSE <<Head(chunks).id>> \o FirstSeen(Tail(chunks), seen \cup {Head(chunks).id})

A_then_B == basic_retrieved_lecture_chunks \o hyde_retrieved_lecture_chunks
FirstSeenIds == FirstSeen(A_then_B, {})
PositionOf(k) == CHOOSE i \in 1..Len(FirstSeenIds) : FirstSeenIds[i] = k
InBoth == IdsOf(basic_retrieved_lecture_chunks) \cap IdsOf(hyde_retrieved_lecture_chunks)

\* C1: after merge_retrieved_chunks(A, B) returned, every id k in both A and B
\* has exactly one entry in the result and that entry is B's property bag for
\* k (the one of k's last chunk in B), never A's.
C1_HydeWinsOnCollision ==
    m_pc = "returned" =>
        /\ Len(merged_chunks) = Cardinality(IdsOf(A_then_B))
        /\ \A k \in InBoth :
              merged_chunks[PositionOf(k)] = LastProps(hyde_retrieved_lecture_chunks, k)

\* C1 witness: a merge returned for an id in both lists whose bags differ
C1_Witness ==
    /\ m_pc = "returned"
    /\ \E k \in InBoth :
          LastProps(basic_retrieved_lecture_chunks, k)
              # LastProps(hyde_retrieved_lecture_chunks, k)

\* C2: the result is ordered by first occurrence of the ids over A then B: the
\* i-th entry belongs to the i-th first-seen id; an id in both lists stays at
\* the position of its first occurrence in A, ids only in B follow in B's
\* order, and the bag of an id in only one list is that list's bag unchanged.
C2_FirstSeenOrder ==
    m_pc = "returned" =>
        /\ Len(merged_chunks) = Len(FirstSeenIds)
        /\ \A i \in 1..Len(FirstSeenIds) :
              LET k == FirstSeenIds[i]
                  inA == k \in IdsOf(basic_retrieved_lecture_chunks)
                  inB == k \in IdsOf(hyde_retrieved_lecture_chunks)
              IN  /\ (inA /\ ~inB) =>
                        merged_chunks[i] = LastProps(basic_retrieved_lecture_chunks, k)
                  /\ (inB /\ ~inA) =>
                        merged_chunks[i] = LastProps(hyde_retrieved_lecture_chunks, k)
                  /\ (inA /\ inB) =>
                        /\ i <= Len(FirstSeen(basic_retrieved_lecture_chunks, {}))
                        /\ merged_chunks[i] \in
                             {A_then_B[j].properties :
                                 j \in {n \in 1..Len(A_then_B) : A_then_B[n].id = k}}

\* C2 witness: an overwritten id in front of another id of A, with an id of B
\* alone behind them
C2_Witness ==
    /\ m_pc = "returned"
    /\ Len(basic_retrieved_lecture_chunks) = 2
    /\ basic_retrieved_lecture_chunks[1].id # basic_retrieved_lecture_chunks[2].id
    /\ basic_retrieved_lecture_chunks[1].id \in IdsOf(hyde_retrieved_lecture_chunks)
    /\ basic_retrieved_lecture_chunks[1].properties
          # LastProps(hyde_retrieved_lecture_chunks, basic_retrieved_lecture_chunks[1].id)
    /\ Len(merged_chunks) >= 2

\* the keys of the dict merge_retrieved_chunks builds, in dict order
MergedIds(basic, hyde) == InsertAll(InsertAll(EmptyDict, basic), hyde).keys

\* the property list of A in which every id keeps its first chunk only
RECURSIVE FirstProps(_, _)
FirstProps(chunks, seen) ==
    IF chunks = <<>> THEN <<>>
    ELSE IF Head(chunks).id \in seen
         THEN FirstProps(Tail(chunks), seen)
         ELSE <<Head(chunks).properties>>
                  \o FirstProps(Tail(chunks), seen \cup {Head(chunks).id})

\* the merge was called with the same list twice
SameListTwice ==
    /\ m_pc = "returned"
    /\ basic_retrieved_lecture_chunks = hyde_retrieved_lecture_chunks

C24_SwapKeepsPositions ==
    m_pc = "returned" =>
        MergedIds(basic_retrieved_lecture_chunks, hyde_retrieved_lecture_chunks)
            = MergedIds(hyde_retrieved_lecture_chunks, basic_retrieved_lecture_chunks)

\* C24 amended: merge(A, B) and merge(B, A) have the same set of ids and the
\* same length, but each lists its ids in first-occurrence order over its
\* own first argument followed by its second, so the positions differ as
\* soon as the second argument brings an id the first lacks.
C24_SwapKeepsIdsNotPositions ==
    m_pc = "returned" =>
        LET A == basic_retrieved_lecture_chunks
            B == hyde_retrieved_lecture_chunks
        IN  /\ MergedIds(A, B) = FirstSeen(A \o B, {})
            /\ MergedIds(B, A) = FirstSeen(B \o A, {})
            /\ {MergedIds(A, B)[i] : i \in 1..Len(MergedIds(A, B))}
                   = {MergedIds(B, A)[i] : i \in 1..Len(MergedIds(B, A))}
            /\ Len(merged_chunks) = Len(MergedIds(A, B))
            /\ Len(merge_retrieved_chunks(B, A)) = Len(merged_chunks)

\* a merge of two lists whose swap puts another id first
C24_Witness ==
    /\ m_pc = "returned"
    /\ Len(merged_chunks) >= 2
    /\ MergedIds(basic_retrieved_lecture_chunks, hyde_retrieved_lecture_chunks)[1]
           # MergedIds(hyde_retrieved_lecture_chunks, basic_retrieved_lecture_chunks)[1]

\* no id occurs twice in A followed by B
AllIdsDistinct == Cardinality(IdsOf(A_then_B)) = Len(A_then_B)

\* C30: the list merge_retrieved_chunks(A, B) returns has exactly one entry
\* per distinct id of A and B (so at most len(A) + len(B) entries, and that
\* many only when all ids are distinct), every entry is the property bag of
\* an input chunk, and the call leaves both input lists as they were.
C30_OneEntryPerIdInputsKept ==
    /\ [](m_pc = "returned" =>
            /\ Len(merged_chunks) = Cardinality(IdsOf(A_then_B))
            /\ Len(MergedIds(basic_retrieved_lecture_chunks,
                             hyde_retrieved_lecture_chunks)) = Len(merged_chunks)
            /\ Len(merged_chunks) <= Len(A_then_B)
            /\ (Len(merged_chunks) = Len(A_then_B)) <=> AllIdsDistinct
            /\ \A i \in 1..Len(merged_chunks) :
                   \E j \in 1..Len(A_then_B) : merged_chunks[i] = A_then_B[j].properties)
    /\ [][/\ basic_retrieved_lecture_chunks' = basic_retrieved_lecture_chunks
          /\ hyde_retrieved_lecture_chunks' = hyde_retrieved_lecture_chunks]_mergeVars

\* a merge that returned fewer entries than it was given chunks
C30_Witness ==
    /\ m_pc = "returned"
    /\ Len(merged_chunks) >= 1
    /\ Len(merged_chunks) < Len(A_then_B)
    /\ Len(basic_retrieved_lecture_chunks) = MaxLen

----------------------------------------------------------------------------
(* Python int(str) and list indexing *)

Digits == <<"0", "1", "2", "3", "4", "5", "6", "7", "8", "9">>
IsDigit(c) == \E d \in 1..10 : Digits[d] = c
DigitValue(c) == (CHOOSE d \in 1..10 : Digits[d] = c) - 1

RECURSIVE StripLeft(_)
StripLeft(s) == IF s # <<>> /\ Head(s) = " " THEN StripLeft(Tail(s)) ELSE s

RECURSIVE StripRight(_)
StripRight(s) ==
    IF s # <<>> /\ s[Len(s)] = " " THEN StripRight(SubSeq(s, 1, Len(s) - 1)) ELSE s

RECURSIVE DecimalValue(_, _)
DecimalValue(s, acc) ==
    IF s = <<>> THEN acc ELSE DecimalValue(Tail(s), 10 * acc + DigitValue(Head(s)))

\* int(s) for a text s (a sequence of characters): surrounding blanks are
\* dropped, one sign is accepted, the rest must be one or more digits;
\* anything else is a ValueError
PyInt(s) ==
    LET t == StripRight(StripLeft(s))
        signed == t # <<>> /\ Head(t) \in {"-", "+"}
        body == IF signed THEN Tail(t) ELSE t
        wellFormed == body # <<>> /\ \A i \in 1..Len(body) : IsDigit(body[i])
        magnitude == DecimalValue(body, 0)
    IN  IF wellFormed
        THEN [ok |-> TRUE,
              val |-> IF signed /\ Head(t) = "-" THEN 0 - magnitude ELSE magnitude]
        ELSE [ok |-> FALSE, val |-> 0]

\* xs[i] is defined for -len(xs) <= i < len(xs); a negative i counts from the end
PyIndexOk(xs, i) == 0 - Len(xs) <= i /\ i < Len(xs)
PyIndex(xs, i) == IF i >= 0 THEN xs[i + 1] ELSE xs[Len(xs) + i + 1]

\* the index texts a reranking LLM is modelled to answer with
Tokens == { <<"0">>, <<"1">>, <<"2">>, <<" ", "1">>, <<"9", "9">>,
            <<"-", "1">>, <<"-", "3">>, <<"a", "b", "c">>, <<>> }

RerankerOutputs == SeqsUpTo(Tokens, MaxSel)

----------------------------------------------------------------------------
(* Specification SpecRetrieval: LectureRetrieval.retrieval_pipeline *)

\* an Optional[int] argument: <<>> is None, <<n>> is the integer n
None == <<>>
Some(n) == <<n>>
\* what `if course_id` sees: None and 0 are false
Truthy(x) == x # None /\ x[1] # 0

\* the courses that have lecture chunks in the index, and the language stored
\* with the chunks of each
IndexedCourses == {1, 2}
StoredLanguage(course) == IF course = 1 THEN "English" ELSE "German"

\* the arguments a caller passes
CourseIds == {None, Some(0), Some(1)}
ResultLimits == 1..MaxLen
ChatHistories == { <<>>, <<"earlier message">> }
student_query == "student query"
course_name == "course name"

\* the texts the two LLM calls answer with
RewriterOutputs == {"rewritten query"}
GeneratorOutputs == {"hypothetical answer"}

\* the property bag the store holds for an object
StoredProperties(uuid) == ToString(uuid)

\* what one hybrid search can return: stored objects, each at most once, no
\* more than the limit asked for
SearchResults(limit) ==
    {s \in SeqsUpTo(ChunkIds, MaxLen) :
        /\ Len(s) <= limit
        /\ \A i, j \in 1..Len(s) : i # j => s[i] # s[j]}

\* [{"id": obj.uuid.int, "properties": obj.properties} for obj in response.objects]
AsChunks(objects) ==
    [i \in 1..Len(objects) |-> [id |-> objects[i], properties |-> StoredProperties(objects[i])]]

\* one call retrieval_pipeline made on a collaborator, with what it answered
Call(op, args, result) == [op |-> op, args |-> args, result |-> result]
Called(call) == r_calls' = Append(r_calls, call)
\* the answer of a call that returned a value, and of one that raised
Returned(value) == <<value>>
Failed(exc) == <<"raised", exc>>

\* an exception leaving retrieval_pipeline from one of its steps
RaisePartial(step, exc) ==
    /\ r_pc' = "done"
    /\ r_exc' = "none"
    /\ r_raised_in' = step

\* a variant in which a failed language lookup is passed over
RaiseExceptAtLookup(step, exc) ==
    /\ r_pc' = IF step = "language" THEN "rewrite" ELSE "raised"
    /\ r_exc' = exc
    /\ r_raised_in' = step

Raise(step, exc) ==
    /\ r_pc' = "raised"
    /\ r_exc' = exc
    /\ r_raised_in' = step

RetrievalInit ==
    /\ MergeIdle
    /\ TutorIdle
    /\ ServiceIdle
    /\ r_pc = "language"
    /\ response = <<>>
    /\ response_hyde = <<>>
    /\ selected_chunks_index = <<>>
    /\ r_result = <<>>
    /\ r_exc = "none"
    /\ r_raised_in = "none"
    /\ course_id \in CourseIds
    /\ result_limit \in ResultLimits
    /\ chat_history \in ChatHistories
    /\ course_language = "unset"
    /\ rewritten_query = "unset"
    /\ hypothetical_answer_query = "unset"
    /\ r_calls = <<>>

\* fetch_objects(limit=1, return_properties=[COURSE_LANGUAGE]): no filter
FetchArgs == <<1, "course_language", None>>

\* the course-language lookup: fetch_objects(limit=1).objects[0], the first
\* object of the whole collection, whichever course it belongs to
FetchCourseLanguage ==
    /\ r_pc = "language"
    /\ \/ \E first \in IndexedCourses :
             /\ course_language' = StoredLanguage(first)
             /\ Called(Call("fetch_objects", FetchArgs, Returned(<<first>>)))
             /\ r_pc' = "rewrite"
             /\ UNCHANGED <<r_exc, r_raised_in>>
       \/ /\ Called(Call("fetch_objects", FetchArgs, Returned(<<>>)))
          /\ Raise("language", "IndexError")
          /\ UNCHANGED course_language
       \/ /\ Called(Call("fetch_objects", FetchArgs, Failed("UpstreamError")))
          /\ Raise("language", "UpstreamError")
          /\ UNCHANGED course_language
    /\ UNCHANGED <<response, response_hyde, selected_chunks_index, r_result>>
    /\ UNCHANGED <<r_args, rewritten_query, hypothetical_answer_query>>
    /\ UNCHANGED <<mergeVars, tutorVars, serviceVars>>

\* self.rewrite_student_query(chat_history, student_query, course_language)
RewriteArgs == <<chat_history, student_query, course_language>>

RewriteStudentQuery ==
    /\ r_pc = "rewrite"
    /\ \/ \E r \in RewriterOutputs :
             /\ rewritten_query' = r
             /\ Called(Call("rewrite_student_query", RewriteArgs, Returned(r)))
             /\ r_pc' = "elaborate"
             /\ UNCHANGED <<r_exc, r_raised_in>>
       \/ /\ Called(Call("rewrite_student_query", RewriteArgs, Failed("UpstreamError")))
          /\ Raise("rewrite", "UpstreamError")
          /\ UNCHANGED rewritten_query
    /\ UNCHANGED <<response, response_hyde, selected_chunks_index, r_result>>
    /\ UNCHANGED <<r_args, course_language, hypothetical_answer_query>>
    /\ UNCHANGED <<mergeVars, tutorVars, serviceVars>>

\* self.rewrite_elaborated_query(rewritten_query, course_language, course_name)
ElaborateArgs == <<rewritten_query, course_language, course_name>>

RewriteElaboratedQuery ==
    /\ r_pc = "elaborate"
    /\ \/ \E h \in GeneratorOutputs :
             /\ hypothetical_answer_query' = h
             /\ Called(Call("rewrite_elaborated_query", ElaborateArgs, Returned(h)))
             /\ r_pc' = "search"
             /\ UNCHANGED <<r_exc, r_raised_in>>
       \/ /\ Called(Call("rewrite_elaborated_query", ElaborateArgs, Failed("UpstreamError")))
          /\ Raise("elaborate", "UpstreamError")
          /\ UNCHANGED hypothetical_answer_query
    /\ UNCHANGED <<response, response_hyde, selected_chunks_index, r_result>>
    /\ UNCHANGED <<r_args, course_language, rewritten_query>>
    /\ UNCHANGED <<mergeVars, tutorVars, serviceVars>>

\* the filters argument search_in_db builds from course_id
SearchFilterAlways(cid) == <<"LECTURE_ID", cid>>

SearchFilter(cid) == IF Truthy(cid) THEN <<"LECTURE_ID", cid[1]>> ELSE None

\* self.llm_embedding.embed(query)
Embed(query) == Call("embed", <<query>>, Returned("vector"))
\* self.collection.query.hybrid(query=, filters=, alpha=, vector=, limit=)
Hybrid(query, hybrid_factor, limit, cid, result) ==
    Call("hybrid", <<query, SearchFilter(cid), hybrid_factor, limit>>, result)

\* search_in_db(query, hybrid_factor, result_limit, course_id) returning objects
SearchReturns(a, objects) ==
    r_calls' = r_calls \o <<Embed(a[1]), Hybrid(a[1], a[2], a[3], a[4], Returned(objects))>>

\* search_in_db raising, from the embedding call or from the search itself
SearchRaises(step, a) ==
    /\ \/ r_calls' = Append(r_calls, Call("embed", <<a[1]>>, Failed("UpstreamError")))
       \/ r_calls' = r_calls \o <<Embed(a[1]),
                                  Hybrid(a[1], a[2], a[3], a[4], Failed("UpstreamError"))>>
    /\ Raise(step, "UpstreamError")

\* self.search_in_db(rewritten_query, 0.5, result_limit, course_id)
BasicSearchArgs == <<rewritten_query, "0.5", result_limit, course_id>>

SearchBasic ==
    /\ r_pc = "search"
    /\ \/ \E objects \in SearchResults(result_limit) :
             /\ response' = objects
             /\ SearchReturns(BasicSearchArgs, objects)
             /\ r_pc' = "search_hyde"
             /\ UNCHANGED <<r_exc, r_raised_in>>
       \/ /\ SearchRaises("search", BasicSearchArgs)
          /\ UNCHANGED response
    /\ UNCHANGED <<response_hyde, selected_chunks_index, r_result>>
    /\ UNCHANGED <<r_args, r_texts>>
    /\ UNCHANGED <<mergeVars, tutorVars, serviceVars>>

\* self.search_in_db(hypothetical_answer_query, 0.5, result_limit, course_id)
HydeSearchArgsRewritten == <<rewritten_query, "0.5", result_limit, course_id>>

HydeSearchArgs == <<hypothetical_answer_query, "0.5", result_limit, course_id>>

SearchHyde ==
    /\ r_pc = "search_hyde"
    /\ \/ \E objects \in SearchResults(result_limit) :
             /\ response_hyde' = objects
             /\ SearchReturns(HydeSearchArgs, objects)
             /\ r_pc' = "merge"
             /\ UNCHANGED <<r_exc, r_raised_in>>
       \/ /\ SearchRaises("search_hyde", HydeSearchArgs)
          /\ UNCHANGED response_hyde
    /\ UNCHANGED <<response, selected_chunks_index, r_result>>
    /\ UNCHANGED <<r_args, r_texts>>
    /\ UNCHANGED <<mergeVars, tutorVars, serviceVars>>

MergeStep ==
    /\ r_pc = "merge"
    /\ basic_retrieved_lecture_chunks' = AsChunks(response)
    /\ hyde_retrieved_lecture_chunks' = AsChunks(response_hyde)
    /\ merged_chunks' = merge_retrieved_chunks(AsChunks(response), AsChunks(response_hyde))
    /\ Called(Call("merge_retrieved_chunks",
                   <<AsChunks(response), AsChunks(response_hyde)>>,
                   Returned(merge_retrieved_chunks(AsChunks(response),
                                                   AsChunks(response_hyde)))))
    /\ m_pc' = "returned"
    /\ r_pc' = "rerank"
    /\ UNCHANGED <<response, response_hyde, selected_chunks_index, r_result,
                   r_exc, r_raised_in>>
    /\ UNCHANGED <<r_args, r_texts>>
    /\ UNCHANGED <<tutorVars, serviceVars>>

\* self.reranker_pipeline(paragraphs=merged_chunks, query=student_query,
\*                        chat_history=chat_history)
\* the index lists the reranker is modelled to answer retrieval_pipeline with
RetrievalTokens == { <<"0">>, <<"1">>, <<"-", "1">>, <<"9", "9">>, <<"a", "b", "c">> }
RetrievalRerankerOutputs == SeqsUpTo(RetrievalTokens, MaxSel)

RerankArgsRewritten == <<merged_chunks, rewritten_query, chat_history>>

RerankArgs == <<merged_chunks, student_query, chat_history>>

RerankChunks ==
    /\ r_pc = "rerank"
    /\ \/ \E out \in RetrievalRerankerOutputs :
             /\ selected_chunks_index' = out
             /\ Called(Call("reranker_pipeline", RerankArgs, Returned(out)))
             /\ r_pc' = "select"
             /\ UNCHANGED <<r_exc, r_raised_in>>
       \/ /\ Called(Call("reranker_pipeline", RerankArgs, Failed("RerankerError")))
          /\ Raise("rerank", "RerankerError")
          /\ UNCHANGED selected_chunks_index
    /\ UNCHANGED <<response, response_hyde, r_result>>
    /\ UNCHANGED <<r_args, r_texts>>
    /\ UNCHANGED <<mergeVars, tutorVars, serviceVars>>

\* the first entry of the index list whose int() or list access fails, 0 if none
FirstFailing(chunks, indices) ==
    LET bad == {i \in 1..Len(indices) :
                   \/ ~PyInt(indices[i]).ok
                   \/ ~PyIndexOk(chunks, PyInt(indices[i]).val)}
    IN  IF bad = {} THEN 0 ELSE CHOOSE i \in bad : \A j \in bad : i <= j

\* return [merged_chunks[int(i)] for i in selected_chunks_index]
SelectChunks ==
    /\ r_pc = "select"
    /\ LET f == FirstFailing(merged_chunks, selected_chunks_index)
       IN  IF f = 0
           THEN /\ r_result' = [i \in 1..Len(selected_chunks_index) |->
                                   PyIndex(merged_chunks, PyInt(selected_chunks_index[i]).val)]
                /\ r_pc' = "done"
                /\ UNCHANGED <<r_exc, r_raised_in>>
           ELSE /\ Raise("select",
                         IF PyInt(selected_chunks_index[f]).ok THEN "IndexError"
                                                              ELSE "ValueError")
                /\ UNCHANGED r_result
    /\ UNCHANGED <<response, response_hyde, selected_chunks_index>>
    /\ UNCHANGED <<r_args, r_texts, r_calls>>
    /\ UNCHANGED <<mergeVars, tutorVars, serviceVars>>

RetrievalNext ==
    \/ FetchCourseLanguage
    \/ RewriteStudentQuery
    \/ RewriteElaboratedQuery
    \/ SearchBasic
    \/ SearchHyde
    \/ MergeStep
    \/ RerankChunks
    \/ SelectChunks

SpecRetrieval == RetrievalInit /\ [][RetrievalNext]_vars

\* C3: whatever index list the reranker returns for the merged chunks (a text
\* that is no number, an index outside [0, len(merged_chunks)), an empty
\* list), retrieval_pipeline does not raise while building its answer.
C3_MalformedRerankDoesNotRaise ==
    ~(r_pc = "raised" /\ r_raised_in = "select")

\* the calls of the run so far on one collaborator, in the order made
CallsOf(op) == SelectSeq(r_calls, LAMBDA c : c.op = op)
\* the names of the calls of the run so far, in the order made
OpsCalled == [i \in 1..Len(r_calls) |-> r_calls[i].op]
\* the entry Python's list indexing yields for the integer n
EntryAt(list, n) == IF n >= 0 THEN list[n + 1] ELSE list[Len(list) + n + 1]

\* C11: when retrieval_pipeline returns, with r the rewriter's output and h
\* the generator's output, the returned list is exactly the entries of
\* merge(search(r), search(h)) at the indices the reranker answered, in the
\* reranker's order; the generator was given r itself, and the reranker was
\* given the original student query (not r) together with the chat history.
C11_ReturnsRerankedMergedSearches ==
    r_pc = "done" =>
        LET rew == CallsOf("rewrite_student_query")
            gen == CallsOf("rewrite_elaborated_query")
            hyb == CallsOf("hybrid")
            rer == CallsOf("reranker_pipeline")
        IN  /\ Len(rew) = 1 /\ Len(gen) = 1 /\ Len(hyb) = 2 /\ Len(rer) = 1
            /\ LET r == rew[1].result[1]
                   h == gen[1].result[1]
                   merged == merge_retrieved_chunks(AsChunks(hyb[1].result[1]),
                                                    AsChunks(hyb[2].result[1]))
                   indices == rer[1].result[1]
               IN  /\ hyb[1].args[1] = r
                   /\ hyb[2].args[1] = h
                   /\ gen[1].args[1] = r
                   /\ rer[1].args = <<merged, student_query, chat_history>>
                   /\ Len(r_result) = Len(indices)
                   /\ \A k \in 1..Len(indices) :
                          r_result[k] = EntryAt(merged, PyInt(indices[k]).val)

\* a run that returned two different passages found by different searches
C11_Witness ==
    /\ r_pc = "done"
    /\ Len(r_result) = 2
    /\ r_result[1] # r_result[2]
    /\ response # response_hyde
    /\ chat_history # <<>>
    /\ rewritten_query # student_query

\* the steps of a run that returns, in program order
StepsOfARun ==
    << "fetch_objects", "rewrite_student_query", "rewrite_elaborated_query",
       "embed", "hybrid", "embed", "hybrid",
       "merge_retrieved_chunks", "reranker_pipeline" >>

\* C12: a run that returns has made its calls strictly in the order language
\* lookup, rewrite, hypothetical answer, search with the rewritten query,
\* search with the hypothetical answer, merge, rerank, each once; both
\* searches had alpha 0.5, limit result_limit and the filter of the same
\* course_id.
C12_StepsInOrder ==
    r_pc = "done" =>
        /\ OpsCalled = StepsOfARun
        /\ LET hyb == CallsOf("hybrid")
           IN  /\ hyb[1].args[1] = rewritten_query
               /\ hyb[2].args[1] = hypothetical_answer_query
               /\ \A i \in 1..2 :
                      /\ hyb[i].args[3] = "0.5"
                      /\ hyb[i].args[4] = result_limit
               /\ hyb[1].args[2] = hyb[2].args[2]
               /\ hyb[1].args[2] # None => hyb[1].args[2][2] = course_id[1]

\* a run with a course filter and a limit above one that returned
C12_Witness ==
    /\ r_pc = "done"
    /\ course_id = Some(1)
    /\ result_limit = MaxLen
    /\ Len(response_hyde) = MaxLen
    /\ rewritten_query # hypothetical_answer_query
    /\ r_result # <<>>

\* the steps before the merge, and the calls each of them makes
EarlySteps == {"language", "rewrite", "elaborate", "search", "search_hyde"}
CallsOfStep(step) ==
    CASE step = "language" -> {"fetch_objects"}
      [] step = "rewrite" -> {"rewrite_student_query"}
      [] step = "elaborate" -> {"rewrite_elaborated_query"}
      [] OTHER -> {"embed", "hybrid"}

\* C13: when the language lookup, the rewrite, the generation or one of the
\* two searches raises, retrieval_pipeline raises that same error, the call
\* that failed is the last one it made (no merge, no rerank), and it returns
\* no passages.
C13_EarlyErrorPropagates ==
    r_raised_in \in EarlySteps =>
        LET last == r_calls[Len(r_calls)]
        IN  /\ r_pc = "raised"
            /\ last.op \in CallsOfStep(r_raised_in)
            /\ IF Len(last.result) = 2
               THEN r_exc = last.result[2]
               ELSE r_raised_in = "language" /\ r_exc = "IndexError"
            /\ CallsOf("merge_retrieved_chunks") = <<>>
            /\ CallsOf("reranker_pipeline") = <<>>
            /\ m_pc = "idle"
            /\ merged_chunks = <<>>
            /\ selected_chunks_index = <<>>
            /\ r_result = <<>>

\* the second search raised after the first had returned chunks
C13_Witness ==
    /\ r_raised_in = "search_hyde"
    /\ r_exc = "UpstreamError"
    /\ response # <<>>
    /\ r_calls[Len(r_calls)].op = "hybrid"

\* the hybrid searches of the run so far
HybridCalls == CallsOf("hybrid")

\* C18: a search is filtered exactly when course_id is present (any value
\* other than None), and the filter then keeps the chunks whose course-id
\* property equals course_id; without a course_id the search is unfiltered.
C18_FilterExactlyWhenCourseIdPresent ==
    \A i \in 1..Len(HybridCalls) :
        LET filters == HybridCalls[i].args[2]
        IN  IF course_id # None
            THEN filters = <<"COURSE_ID", course_id[1]>>
            ELSE filters = None

\* C19: with course_id = None both hybrid searches are issued with the
\* filter argument None.
C19_NoCourseIdNoFilter ==
    (course_id = None /\ r_pc \in {"merge", "rerank", "select", "done"}) =>
        /\ Len(HybridCalls) = 2
        /\ \A i \in 1..2 : /\ HybridCalls[i].args[2] = None
                            /\ Len(HybridCalls[i].result) = 1

\* both searches of a run without course_id returned chunks
C19_Witness ==
    /\ course_id = None
    /\ r_pc = "done"
    /\ response # <<>>
    /\ response_hyde # <<>>
    /\ Len(HybridCalls) = 2

\* the language lookup of the run so far has returned
LanguageKnown == r_pc # "language" /\ r_raised_in # "language"

\* the language argument of a call of the rewriter or of the generator
LanguageArg(call) ==
    IF call.op = "rewrite_student_query" THEN call.args[3] ELSE call.args[2]

\* C20: the target language handed to the rewriter and to the generator is
\* the language stored in the index for the course named by course_id, not
\* the language of another indexed course.
C20_LanguageOfQueriedCourse ==
    (/\ LanguageKnown
     /\ course_id # None
     /\ course_id[1] \in IndexedCourses) =>
        /\ course_language = StoredLanguage(course_id[1])
        /\ \A i \in 1..Len(r_calls) :
               r_calls[i].op \in {"rewrite_student_query", "rewrite_elaborated_query"}
                   => LanguageArg(r_calls[i]) = StoredLanguage(course_id[1])

\* the language lookup of the run found the index empty
IndexFoundEmpty ==
    /\ r_calls # <<>>
    /\ r_calls[1].op = "fetch_objects"
    /\ Len(r_calls[1].result) = 1
    /\ r_calls[1].result[1] = <<>>

\* C21: when the lecture index is empty, retrieval_pipeline fails at the
\* language lookup with a propagated error: the lookup is the only call it
\* has made, so no LLM call, no embedding call and no hybrid search happens.
C21_EmptyIndexFailsAtLookup ==
    IndexFoundEmpty =>
        /\ r_pc = "raised"
        /\ r_raised_in = "language"
        /\ r_exc = "IndexError"
        /\ Len(r_calls) = 1
        /\ course_language = "unset"
        /\ rewritten_query = "unset"
        /\ hypothetical_answer_query = "unset"
        /\ response = <<>> /\ response_hyde = <<>>
        /\ r_result = <<>>

\* a run for an indexed course's id that found the index empty
C21_Witness ==
    /\ IndexFoundEmpty
    /\ r_pc = "raised"
    /\ course_id = Some(1)
    /\ chat_history # <<>>

----------------------------------------------------------------------------
(* Specification SpecTutor: one TutorChatPipeline.__call__ *)

\* the answers a sub-pipeline can produce
Answers == {"answer 1", "answer 2"}

NoResult == "none"
Callback(kind, final_result) == [kind |-> kind, final_result |-> final_result]

\* a Thread built with target=self._run_..._pipeline, the bound method itself
TargetIsMethod == FALSE

\* threading.Thread(target=self._run_..._pipeline(dto), args=(dto,)): the target
\* expression is a call, which the caller evaluates while it builds the Thread
TargetIsCallResult == TRUE

LectureSlot == "lecture_chat_response"

\* the tutor branch storing its answer in the other branch's attribute
TutorSlotSwapped == "lecture_chat_response"

TutorSlot == "tutor_chat_response"

\* self.<slot> = value, executed by a branch on a thread
WriteSlot(slot, value, branch, thread) ==
    /\ lecture_chat_response' =
          IF slot = "lecture_chat_response" THEN value ELSE lecture_chat_response
    /\ tutor_chat_response' =
          IF slot = "tutor_chat_response" THEN value ELSE tutor_chat_response
    /\ writes' = Append(writes, [slot |-> slot, branch |-> branch, thread |-> thread])

\* reading an attribute that has a class-level default of None
ReadSlotDefaultNone(v) == [ok |-> TRUE, val |-> IF v = "unset" THEN "None" ELSE v]

\* self.<slot>: an attribute no branch has assigned is an AttributeError
ReadSlot(v) == [ok |-> v # "unset", val |-> v]

\* paragraphs[int(paragraph_index)] with the exception left to the caller
choose_paragraph_uncaught(candidates, index) ==
    LET n == PyInt(index)
    IN  IF n.ok /\ PyIndexOk(candidates, n.val)
        THEN [raised |-> FALSE, value |-> PyIndex(candidates, n.val)]
        ELSE [raised |-> TRUE, value |-> "unset"]

\* try: chosen_paragraph = paragraphs[int(paragraph_index)]
\* except Exception: chosen_paragraph = paragraphs[0]
choose_paragraph(candidates, index) ==
    LET n == PyInt(index)
    IN  IF n.ok /\ PyIndexOk(candidates, n.val)
        THEN [raised |-> FALSE, value |-> PyIndex(candidates, n.val)]
        ELSE [raised |-> FALSE, value |-> PyIndex(candidates, 0)]

TutorInit ==
    /\ MergeIdle
    /\ RetrievalIdle
    /\ ServiceIdle
    /\ t_pc = "construct_lecture_thread"
    /\ dto_submission \in BOOLEAN
    /\ lecture_chat_response = "unset"
    /\ tutor_chat_response = "unset"
    /\ lecture_target = "unset"
    /\ tutor_target = "unset"
    /\ lecture_chat_thread = "unborn"
    /\ tutor_chat_thread = "unborn"
    /\ lecture_branch = "idle"
    /\ lecture_runner = "none"
    /\ tutor_branch = "idle"
    /\ tutor_runner = "none"
    /\ callbacks = <<>>
    /\ writes = <<>>
    /\ paragraphs = <<>>
    /\ paragraph_index = <<>>
    /\ chosen_paragraph = "unset"
    /\ t_exc = "none"
    /\ t_raised_in = "none"

notTutor == <<mergeVars, retrievalVars, serviceVars>>

\* lecture_chat_thread = threading.Thread(target=..., args=(dto,))
ConstructLectureThread ==
    /\ t_pc = "construct_lecture_thread"
    /\ IF TargetIsCallResult
       THEN /\ lecture_branch' = "running"
            /\ lecture_runner' = "caller"
            /\ t_pc' = "in_lecture_branch"
            /\ UNCHANGED <<lecture_target, lecture_chat_thread>>
       ELSE /\ lecture_target' = "method"
            /\ lecture_chat_thread' = "created"
            /\ t_pc' = "construct_tutor_thread"
            /\ UNCHANGED <<lecture_branch, lecture_runner>>
    /\ UNCHANGED <<dto_submission, slotVars, tutor_target, tutor_chat_thread,
                   tutor_branch, tutor_runner, callbacks, chooseVars, excVars>>
    /\ UNCHANGED notTutor

\* _run_lecture_chat_pipeline: self.lecture_chat_response = pipeline(dto=dto)
RunLectureChatPipeline ==
    /\ lecture_branch = "running"
    /\ \/ /\ \E a \in Answers : WriteSlot(LectureSlot, a, "lecture", lecture_runner)
          /\ lecture_branch' = "completed"
          /\ IF lecture_runner = "caller"
             THEN /\ lecture_target' = "None"
                  /\ lecture_chat_thread' = "created"
                  /\ t_pc' = "construct_tutor_thread"
             ELSE /\ lecture_chat_thread' = "finished"
                  /\ UNCHANGED <<lecture_target, t_pc>>
          /\ UNCHANGED excVars
       \/ /\ lecture_branch' = "failed"
          /\ IF lecture_runner = "caller"
             THEN /\ t_pc' = "raised"
                  /\ t_exc' = "UpstreamError"
                  /\ t_raised_in' = "lecture_branch"
                  /\ UNCHANGED <<lecture_target, lecture_chat_thread>>
             ELSE /\ lecture_chat_thread' = "died"
                  /\ UNCHANGED <<lecture_target, t_pc, excVars>>
          /\ UNCHANGED slotVars
    /\ UNCHANGED <<dto_submission, tutor_target, tutor_chat_thread, lecture_runner,
                   tutor_branch, tutor_runner, callbacks, chooseVars>>
    /\ UNCHANGED notTutor

\* tutor_chat_thread = threading.Thread(target=..., args=(dto,))
ConstructTutorThread ==
    /\ t_pc = "construct_tutor_thread"
    /\ IF TargetIsCallResult
       THEN /\ tutor_branch' = "running"
            /\ tutor_runner' = "caller"
            /\ t_pc' = "in_tutor_branch"
            /\ UNCHANGED <<tutor_target, tutor_chat_thread>>
       ELSE /\ tutor_target' = "method"
            /\ tutor_chat_thread' = "created"
            /\ t_pc' = "start_lecture_thread"
            /\ UNCHANGED <<tutor_branch, tutor_runner>>
    /\ UNCHANGED <<dto_submission, slotVars, lecture_target, lecture_chat_thread,
                   lecture_branch, lecture_runner, callbacks, chooseVars, excVars>>
    /\ UNCHANGED notTutor

\* the tutor branch returns retval to whoever runs it
TutorReturns(retval) ==
    IF tutor_runner = "caller"
    THEN /\ tutor_target' = retval
         /\ tutor_chat_thread' = "created"
         /\ t_pc' = "start_lecture_thread"
         /\ UNCHANGED excVars
    ELSE /\ tutor_chat_thread' = "finished"
         /\ UNCHANGED <<tutor_target, t_pc, excVars>>

\* an exception leaves the tutor branch
TutorRaises ==
    IF tutor_runner = "caller"
    THEN /\ t_pc' = "raised"
         /\ t_exc' = "UpstreamError"
         /\ t_raised_in' = "tutor_branch"
         /\ UNCHANGED <<tutor_target, tutor_chat_thread>>
    ELSE /\ tutor_chat_thread' = "died"
         /\ UNCHANGED <<tutor_target, t_pc, excVars>>

\* _run_tutor_chat_pipeline up to the file lookup
TutorLookUpFiles ==
    /\ tutor_branch = "running"
    /\ IF dto_submission
       THEN \/ /\ callbacks' = callbacks \o <<Callback("in_progress", NoResult),
                                              Callback("done", NoResult)>>
               /\ tutor_branch' = "retrieve"
               /\ UNCHANGED <<tutor_target, tutor_chat_thread, t_pc, excVars>>
            \/ /\ callbacks' = callbacks \o <<Callback("in_progress", NoResult),
                                              Callback("error", NoResult)>>
               /\ tutor_branch' = "reported_error"
               /\ TutorReturns("None")
       ELSE /\ callbacks' = callbacks \o <<Callback("in_progress", NoResult),
                                           Callback("skip", NoResult)>>
            /\ tutor_branch' = "retrieve"
            /\ UNCHANGED <<tutor_target, tutor_chat_thread, t_pc, excVars>>
    /\ UNCHANGED <<dto_submission, slotVars, lecture_target, lecture_chat_thread,
                   lecture_branch, lecture_runner, tutor_runner, chooseVars>>
    /\ UNCHANGED notTutor

\* retrieved_lecture_chunks = self.retriever(...), outside any try
TutorRetrieveLectureChunks ==
    /\ tutor_branch = "retrieve"
    /\ \/ /\ callbacks' = Append(callbacks, Callback("in_progress", NoResult))
          /\ tutor_branch' = "generate"
          /\ UNCHANGED <<tutor_target, tutor_chat_thread, t_pc, excVars>>
       \/ /\ tutor_branch' = "failed"
          /\ TutorRaises
          /\ UNCHANGED callbacks
    /\ UNCHANGED <<dto_submission, slotVars, lecture_target, lecture_chat_thread,
                   lecture_branch, lecture_runner, tutor_runner, chooseVars>>
    /\ UNCHANGED notTutor

\* the two LLM invocations and self.tutor_chat_response = ...
TutorGenerateResponse ==
    /\ tutor_branch = "generate"
    /\ \/ /\ \E a \in Answers : WriteSlot(TutorSlot, a, "tutor", tutor_runner)
          /\ tutor_branch' = "completed"
          /\ TutorReturns("None")
          /\ UNCHANGED callbacks
       \/ /\ callbacks' = Append(callbacks, Callback("error", NoResult))
          /\ tutor_branch' = "reported_error"
          /\ TutorReturns("str")
          /\ UNCHANGED slotVars
    /\ UNCHANGED <<dto_submission, lecture_target, lecture_chat_thread,
                   lecture_branch, lecture_runner, tutor_runner, chooseVars>>
    /\ UNCHANGED notTutor

StartLectureThread ==
    /\ t_pc = "start_lecture_thread"
    /\ lecture_chat_thread' = "started"
    /\ t_pc' = "start_tutor_thread"
    /\ UNCHANGED <<dto_submission, slotVars, lecture_target, tutor_target,
                   tutor_chat_thread, branchVars, callbacks, chooseVars, excVars>>
    /\ UNCHANGED notTutor

StartTutorThread ==
    /\ t_pc = "start_tutor_thread"
    /\ tutor_chat_thread' = "started"
    /\ t_pc' = "read_slots"
    /\ UNCHANGED <<dto_submission, slotVars, lecture_target, tutor_target,
                   lecture_chat_thread, branchVars, callbacks, chooseVars, excVars>>
    /\ UNCHANGED notTutor

\* Thread.run of lecture_chat_thread: calls the target unless it is None
LectureThreadRun ==
    /\ lecture_chat_thread = "started"
    /\ IF lecture_target = "method"
       THEN /\ lecture_chat_thread' = "running"
            /\ lecture_branch' = "running"
            /\ lecture_runner' = "lecture_chat_thread"
       ELSE /\ lecture_chat_thread' = "finished"
            /\ UNCHANGED <<lecture_branch, lecture_runner>>
    /\ UNCHANGED <<t_pc, dto_submission, slotVars, lecture_target, tutor_target,
                   tutor_chat_thread, tutor_branch, tutor_runner, callbacks,
                   chooseVars, excVars>>
    /\ UNCHANGED notTutor

\* Thread.run of tutor_chat_thread: a str target is not callable (TypeError
\* inside the thread, which ends it)
TutorThreadRun ==
    /\ tutor_chat_thread = "started"
    /\ IF tutor_target = "method"
       THEN /\ tutor_chat_thread' = "running"
            /\ tutor_branch' = "running"
            /\ tutor_runner' = "tutor_chat_thread"
       ELSE /\ tutor_chat_thread' = IF tutor_target = "str" THEN "died" ELSE "finished"
            /\ UNCHANGED <<tutor_branch, tutor_runner>>
    /\ UNCHANGED <<t_pc, dto_submission, slotVars, lecture_target, tutor_target,
                   lecture_chat_thread, lecture_branch, lecture_runner, callbacks,
                   chooseVars, excVars>>
    /\ UNCHANGED notTutor

\* entering the try block: [self.tutor_chat_response, self.lecture_chat_response]
ReadSlots ==
    /\ t_pc = "read_slots"
    /\ LET t == ReadSlot(tutor_chat_response)
           l == ReadSlot(lecture_chat_response)
       IN  IF t.ok /\ l.ok
           THEN /\ paragraphs' = <<t.val, l.val>>
                /\ t_pc' = "rerank"
                /\ UNCHANGED excVars
           ELSE /\ t_exc' = "AttributeError"
                /\ t_raised_in' = "read_slots"
                /\ t_pc' = "report_error"
                /\ UNCHANGED paragraphs
    /\ UNCHANGED <<dto_submission, slotVars, threadVars, branchVars, callbacks,
                   paragraph_index, chosen_paragraph>>
    /\ UNCHANGED notTutor

\* choose_best_response: paragraph_index = self.reranker_pipeline(...)[0]
RerankResponses ==
    /\ t_pc = "rerank"
    /\ \/ \E out \in RerankerOutputs :
            IF out = <<>>
            THEN /\ t_exc' = "IndexError"
                 /\ t_raised_in' = "rerank"
                 /\ t_pc' = "report_error"
                 /\ UNCHANGED paragraph_index
            ELSE /\ paragraph_index' = out[1]
                 /\ t_pc' = "resolve"
                 /\ UNCHANGED excVars
       \/ /\ t_exc' = "RerankerError"
          /\ t_raised_in' = "rerank"
          /\ t_pc' = "report_error"
          /\ UNCHANGED paragraph_index
    /\ UNCHANGED <<dto_submission, slotVars, threadVars, branchVars, callbacks,
                   paragraphs, chosen_paragraph>>
    /\ UNCHANGED notTutor

\* choose_best_response: the try/except around the index resolution, and return
ResolveIndex ==
    /\ t_pc = "resolve"
    /\ LET r == choose_paragraph(paragraphs, paragraph_index)
       IN  IF r.raised
           THEN /\ t_exc' = "ValueError or IndexError"
                /\ t_raised_in' = "resolve"
                /\ t_pc' = "report_error"
                /\ UNCHANGED chosen_paragraph
           ELSE /\ chosen_paragraph' = r.value
                /\ t_pc' = "report_done"
                /\ UNCHANGED excVars
    /\ UNCHANGED <<dto_submission, slotVars, threadVars, branchVars, callbacks,
                   paragraphs, paragraph_index>>
    /\ UNCHANGED notTutor

\* self.callback.done("Generated response", final_result=response)
ReportDone ==
    /\ t_pc = "report_done"
    /\ callbacks' = Append(callbacks, Callback("done", chosen_paragraph))
    /\ t_pc' = "returned"
    /\ UNCHANGED <<dto_submission, slotVars, threadVars, branchVars, chooseVars, excVars>>
    /\ UNCHANGED notTutor

\* except Exception as e: self.callback.error(f"Failed to generate response: {e}")
ReportError ==
    /\ t_pc = "report_error"
    /\ callbacks' = Append(callbacks, Callback("error", NoResult))
    /\ t_pc' = "returned"
    /\ UNCHANGED <<dto_submission, slotVars, threadVars, branchVars, chooseVars, excVars>>
    /\ UNCHANGED notTutor

TutorNext ==
    \/ ConstructLectureThread
    \/ RunLectureChatPipeline
    \/ ConstructTutorThread
    \/ TutorLookUpFiles
    \/ TutorRetrieveLectureChunks
    \/ TutorGenerateResponse
    \/ StartLectureThread
    \/ StartTutorThread
    \/ LectureThreadRun
    \/ TutorThreadRun
    \/ ReadSlots
    \/ RerankResponses
    \/ ResolveIndex
    \/ ReportDone
    \/ ReportError

SpecTutor == TutorInit /\ [][TutorNext]_vars

----------------------------------------------------------------------------
(* Claims about choose_best_response and TutorChatPipeline.__call__ *)

\* choose_best_response got an index from the reranker and went through its
\* try/except
PastResolve ==
    /\ t_pc \in {"report_done", "report_error", "returned"}
    /\ t_raised_in \notin {"read_slots", "rerank"}

\* C4: choose_best_response never raises to its caller, also when the reranker
\* call raises or returns an empty list: it then returns candidates[0].
C4_ChooseNeverRaises ==
    t_raised_in \notin {"rerank", "resolve"}

\* C5: when the first index the reranker returned is no integer text,
\* choose_best_response returns candidates[0] and raises nothing.
C5_UnparsableIndexFallsBack ==
    (PastResolve /\ ~PyInt(paragraph_index).ok) =>
        /\ t_raised_in = "none"
        /\ chosen_paragraph = paragraphs[1]

\* C5 witness: the index text "abc" was resolved for two different candidates
C5_Witness ==
    /\ t_pc = "report_done"
    /\ paragraph_index = <<"a", "b", "c">>
    /\ paragraphs[1] # paragraphs[2]
    /\ chosen_paragraph = paragraphs[1]

\* C6: for a first index that parses as the integer i, choose_best_response
\* returns candidates[i] when 0 <= i < len(candidates) and candidates[0] when
\* i is too large or negative.
C6_IntegerIndexInRangeOrFirst ==
    (PastResolve /\ PyInt(paragraph_index).ok) =>
        LET i == PyInt(paragraph_index).val
        IN  /\ t_raised_in = "none"
            /\ (0 <= i /\ i < Len(paragraphs)) => chosen_paragraph = paragraphs[i + 1]
            /\ (i < 0 \/ i >= Len(paragraphs)) => chosen_paragraph = paragraphs[1]

LectureBranchFinished == lecture_branch \in {"completed", "failed"}
TutorBranchFinished == tutor_branch \in {"completed", "reported_error", "failed"}

\* C7: from the moment the caller enters the try block that reads the two
\* slots and calls choose_best_response, both branches have finished
\* (completed or failed); selection never runs beside a running branch.
C7_SelectionAfterBothBranches ==
    t_pc \in {"read_slots", "rerank", "resolve", "report_done", "report_error",
              "returned"}
        => LectureBranchFinished /\ TutorBranchFinished

\* C7 witness: choose_best_response is running on the answers of two
\* completed branches
C7_Witness ==
    /\ t_pc = "rerank"
    /\ lecture_branch = "completed"
    /\ tutor_branch = "completed"
    /\ Len(paragraphs) = 2

\* C8: a branch is only ever executed by the worker thread started for it,
\* never by the thread that called __call__.
C8_BranchesRunOnWorkerThreads ==
    /\ lecture_runner \in {"none", "lecture_chat_thread"}
    /\ tutor_runner \in {"none", "tutor_chat_thread"}

\* C9: each slot has one writer: every write of lecture_chat_response is made
\* by the lecture branch and every write of tutor_chat_response by the tutor
\* branch, each slot is written at most once in the invocation, by one thread,
\* and no worker thread writes the other branch's slot.
C9_OneWriterPerSlot ==
    /\ \A i \in 1..Len(writes) :
          /\ writes[i].slot = "lecture_chat_response" => writes[i].branch = "lecture"
          /\ writes[i].slot = "tutor_chat_response" => writes[i].branch = "tutor"
          /\ writes[i].thread = "lecture_chat_thread"
                => writes[i].slot = "lecture_chat_response"
          /\ writes[i].thread = "tutor_chat_thread"
                => writes[i].slot = "tutor_chat_response"
    /\ \A i, j \in 1..Len(writes) : writes[i].slot = writes[j].slot => i = j

\* C9 witness: both branches have stored their answer and the call returned
C9_Witness ==
    /\ t_pc = "returned"
    /\ Len(writes) = 2
    /\ lecture_chat_response \in Answers
    /\ tutor_chat_response \in Answers

FinalDoneSent ==
    \E i \in 1..Len(callbacks) :
        callbacks[i].kind = "done" /\ callbacks[i].final_result # NoResult

\* C10: when a branch ended without an answer (it raised, or reported an error
\* and returned early), choose_best_response is not called at all and no final
\* done callback is sent; whenever it is called, both candidates are answers
\* their branches produced.
C10_NoSelectionWithoutAnswer ==
    /\ (lecture_branch = "failed" \/ tutor_branch \in {"failed", "reported_error"})
          => paragraphs = <<>> /\ chosen_paragraph = "unset" /\ ~FinalDoneSent
    /\ paragraphs # <<>> =>
          /\ paragraphs[1] = tutor_chat_response /\ paragraphs[1] \in Answers
          /\ paragraphs[2] = lecture_chat_response /\ paragraphs[2] \in Answers

\* C10 witness: the tutor branch reported an error and returned early, and the
\* invocation ended with the error callback of the try block
C10_Witness ==
    /\ tutor_branch = "reported_error"
    /\ lecture_branch = "completed"
    /\ t_pc = "returned"
    /\ t_raised_in = "read_slots"
    /\ callbacks[Len(callbacks)].kind = "error"

\* positions of the terminal callbacks of the invocation: every error, and the
\* final done, the one that carries a final_result
TutorTerminals ==
    {i \in 1..Len(callbacks) :
        \/ callbacks[i].kind = "error"
        \/ callbacks[i].kind = "done" /\ callbacks[i].final_result # NoResult}

\* C29: within one TutorChatPipeline invocation at most one terminal status
\* callback is emitted: one final done or one error, never two errors and
\* never a final done after an error.
C29_AtMostOneTerminalCallback ==
    /\ Cardinality(TutorTerminals) <= 1
    /\ \A i, j \in TutorTerminals :
           (i < j /\ callbacks[i].kind = "error") => callbacks[j].kind # "done"

----------------------------------------------------------------------------
(* Specification SpecChat: OpenAIChatModel.chat *)

retries == 5
backoff_factor == 2
initial_delay == 1

\* what the caller can ask for: arguments.response_format and self.tools
ResponseFormats == {"JSON", "TEXT"}

\* the exceptions client.chat.completions.create is modelled to raise, named
\* by the class of the handler they are an instance of, and two that are no
\* APIError
RetryableErrors == {"APIError", "APITimeoutError", "RateLimitError"}
OtherErrors == {"OpenAIError", "TypeError"}
\* finish reasons of a returned choice other than content_filter
FinishReasons == {"stop", "length"}

\* except (APIError, APITimeoutError, RateLimitError)
CaughtWithContentFilter(exc) ==
    exc \in RetryableErrors \cup {"ContentFilterFinishReasonError"}

Caught(exc) == exc \in RetryableErrors

\* wait_time = initial_delay * (backoff_factor**attempt)
wait_time_linear(n) == initial_delay * backoff_factor * n

wait_time(n) == initial_delay * (backoff_factor ^ n)

\* the one of the four create(...) calls the arguments select
CreateCall ==
    [response_format |-> IF response_format = "JSON" THEN "json_object" ELSE "absent",
     tools |-> tools]

ChatInit ==
    /\ MergeIdle
    /\ RetrievalIdle
    /\ TutorIdle
    /\ WorkerIdle
    /\ LaterIdle
    /\ c_pc = "try"
    /\ response_format \in ResponseFormats
    /\ tools \in BOOLEAN
    /\ attempt = 0
    /\ provider_calls = <<>>
    /\ c_log = <<>>
    /\ sleeps = <<>>
    /\ c_exc = "none"

notChat == <<mergeVars, retrievalVars, tutorVars, endpointVars, workerVars, laterVars>>

\* one more create(...) call, with its outcome noted
ProviderCall(outcome) ==
    /\ provider_calls' = Append(provider_calls, CreateCall)
    /\ c_log' = Append(c_log, outcome)

\* an exception raised inside the try block of one loop iteration
RaisedInTry(exc) ==
    IF Caught(exc)
    THEN /\ sleeps' = Append(sleeps, wait_time(attempt))
         /\ attempt' = attempt + 1
         /\ c_pc' = IF attempt + 1 < retries THEN "try" ELSE "exhausted"
         /\ UNCHANGED c_exc
    ELSE /\ c_pc' = "raised"
         /\ c_exc' = exc
         /\ UNCHANGED <<sleeps, attempt>>

\* create(...) returns and the choice is converted and returned
ChatReturns ==
    /\ c_pc = "try"
    /\ \E reason \in FinishReasons : ProviderCall(reason)
    /\ c_pc' = "returned"
    /\ UNCHANGED <<response_format, tools, attempt, sleeps, c_exc>>
    /\ UNCHANGED notChat

\* create(...) returns a choice with finish_reason == "content_filter"
ChatContentFilter ==
    /\ c_pc = "try"
    /\ ProviderCall("content_filter")
    /\ RaisedInTry("ContentFilterFinishReasonError")
    /\ UNCHANGED <<response_format, tools>>
    /\ UNCHANGED notChat

\* create(...) raises
ChatProviderRaises ==
    /\ c_pc = "try"
    /\ \E exc \in RetryableErrors \cup OtherErrors :
           /\ ProviderCall(exc)
           /\ RaisedInTry(exc)
    /\ UNCHANGED <<response_format, tools>>
    /\ UNCHANGED notChat

\* the loop running out taken as an ordinary return
ChatGiveUpReturns ==
    /\ c_pc = "exhausted"
    /\ c_pc' = "returned"
    /\ UNCHANGED <<response_format, tools, attempt, provider_calls, c_log, sleeps, c_exc>>
    /\ UNCHANGED notChat

\* raise Exception("Failed to get response from OpenAI after 5 retries")
ChatGiveUp ==
    /\ c_pc = "exhausted"
    /\ c_pc' = "raised"
    /\ c_exc' = "Exception"
    /\ UNCHANGED <<response_format, tools, attempt, provider_calls, c_log, sleeps>>
    /\ UNCHANGED notChat

ChatNext ==
    \/ ChatReturns
    \/ ChatContentFilter
    \/ ChatProviderRaises
    \/ ChatGiveUp

SpecChat == ChatInit /\ [][ChatNext]_vars

\* the attempts of the call so far that ended in an error the handler names
FailedAttempts == {i \in 1..Len(c_log) : c_log[i] \in RetryableErrors}
\* the waits the claim lists, after the 1st .. 5th failed attempt
ClaimedWaits == <<1, 2, 4, 8, 16>>

\* C14: chat makes at most 5 provider calls; it makes another call only
\* after an APIError, APITimeoutError or RateLimitError; it waits 1, 2, 4,
\* 8, 16 seconds after the 1st .. 5th failed attempt; any other exception
\* leaves chat at once, with no retry.
C14_FiveAttemptsExponentialBackoff ==
    /\ Len(provider_calls) <= 5
    /\ Len(provider_calls) = Len(c_log)
    /\ \A i \in 1..Len(c_log) : i < Len(c_log) => i \in FailedAttempts
    /\ Len(sleeps) = Cardinality(FailedAttempts)
    /\ Len(sleeps) <= 5
    /\ \A i \in 1..Len(sleeps) : sleeps[i] = ClaimedWaits[i]
    /\ \A i \in 1..Len(c_log) :
           c_log[i] \in OtherErrors =>
               /\ c_pc = "raised"
               /\ c_exc = c_log[i]
               /\ Len(sleeps) = i - 1

\* five failed attempts, all waits taken, and the final failure raised
C14_Witness ==
    /\ c_pc = "raised"
    /\ c_exc = "Exception"
    /\ Len(provider_calls) = 5
    /\ sleeps = ClaimedWaits
    /\ {c_log[i] : i \in 1..5} = RetryableErrors

\* C15: a response whose finish reason is content_filter makes chat fail at
\* once: no further provider call and no backoff sleep follow it.
C15_ContentFilterIsFatal ==
    \A i \in 1..Len(c_log) :
        c_log[i] = "content_filter" =>
            /\ i = Len(c_log)
            /\ Len(provider_calls) = i
            /\ c_pc = "raised"
            /\ c_exc = "ContentFilterFinishReasonError"
            /\ Len(sleeps) = i - 1

\* the content filter struck on the third attempt, after two retried errors
C15_Witness ==
    /\ Len(c_log) = 3
    /\ c_log[3] = "content_filter"
    /\ Len(sleeps) = 2
    /\ c_pc = "raised"

\* the seconds one call has slept so far
RECURSIVE SumOf(_)
SumOf(seq) == IF seq = <<>> THEN 0 ELSE Head(seq) + SumOf(Tail(seq))

\* C26: one chat call sleeps at most 1 + 2 + 4 + 8 + 16 = 31 seconds in all;
\* it has slept 31 seconds exactly when all five attempts failed with a
\* transient error, and then the call raises and never returns a message; a
\* call that returned did so at its successful attempt, the last provider
\* call, with one sleep per failed attempt before it and none after.
C26_AtMostThirtyOneSecondsOfSleep ==
    /\ SumOf(sleeps) <= 31
    /\ SumOf(sleeps) = 31 <=>
           (Len(c_log) = 5 /\ \A i \in 1..5 : c_log[i] \in RetryableErrors)
    /\ SumOf(sleeps) = 31 =>
           /\ c_pc \in {"exhausted", "raised"}
           /\ c_pc = "raised" => c_exc = "Exception"
    /\ c_pc = "returned" =>
           /\ c_log[Len(c_log)] \in FinishReasons
           /\ Len(provider_calls) = Len(c_log)
           /\ Len(sleeps) = Len(c_log) - 1
           /\ SumOf(sleeps) < 31
           /\ c_exc = "none"

\* all five attempts failed: 31 seconds slept and the call raised
C26_Witness ==
    /\ SumOf(sleeps) = 31
    /\ Len(provider_calls) = 5
    /\ c_pc = "raised"
    /\ c_exc = "Exception"

----------------------------------------------------------------------------
(* Specification SpecWorker: the pipeline-run endpoints and their workers  *)
(* (app/web/routers/pipelines.py)                                           *)

\* the run routes modelled, each with its worker function
Routes == {"tutor-chat", "course-chat", "text-exercise-chat"}

\* what can raise while a worker builds its callback and its pipeline
PrepareErrors(r) ==
    {"callback constructor", "pipeline constructor"}
        \cup (IF r = "text-exercise-chat" THEN {"Unknown variant"} ELSE {})

\* Thread(target=run_..._pipeline_worker, args=(dto,)): the function itself
WorkerTargetIsCallResult == FALSE

WorkerTargetIsFunction == TRUE

\* a status update sent to the platform
StatusCallback(kind, message) == [kind |-> kind, message |-> message]
\* the endpoint function returns None under status_code=202
Acknowledgement == [status |-> "202 Accepted", body |-> "null"]
Rejection == [status |-> "4xx", body |-> "detail"]

WorkerInit ==
    /\ MergeIdle
    /\ RetrievalIdle
    /\ TutorIdle
    /\ ChatIdle
    /\ LaterIdle
    /\ e_pc = [q \in Requests |-> "waiting"]
    /\ route = [q \in Requests |-> "none"]
    /\ thread_starts = [q \in Requests |-> 0]
    /\ http_response = [q \in Requests |-> NoResponse]
    /\ w_pc = [q \in Requests |-> "unborn"]
    /\ w_runner = [q \in Requests |-> "none"]
    /\ pipeline_runner = [q \in Requests |-> "none"]
    /\ w_callbacks = [q \in Requests |-> <<>>]
    /\ w_captured = [q \in Requests |-> <<>>]
    /\ pipeline_raised = [q \in Requests |-> FALSE]

notWorker == <<mergeVars, retrievalVars, tutorVars, chatVars, laterVars>>

\* a request reaches a run route; the token check and the body validation
\* accept it or answer it with an error status
RequestArrives(q) ==
    /\ e_pc[q] = "waiting"
    /\ \E r \in Routes : route' = [route EXCEPT ![q] = r]
    /\ \/ /\ e_pc' = [e_pc EXCEPT ![q] = "accepted"]
          /\ UNCHANGED http_response
       \/ /\ e_pc' = [e_pc EXCEPT ![q] = "rejected"]
          /\ http_response' = [http_response EXCEPT ![q] = Rejection]
    /\ UNCHANGED <<thread_starts, workerVars>>
    /\ UNCHANGED notWorker

\* thread = Thread(target=..., args=(dto,))
EndpointConstructThread(q) ==
    /\ e_pc[q] = "accepted"
    /\ IF WorkerTargetIsFunction
       THEN /\ e_pc' = [e_pc EXCEPT ![q] = "constructed"]
            /\ UNCHANGED <<w_pc, w_runner>>
       ELSE /\ e_pc' = [e_pc EXCEPT ![q] = "evaluating_target"]
            /\ w_pc' = [w_pc EXCEPT ![q] = "prepare"]
            /\ w_runner' = [w_runner EXCEPT ![q] = "request"]
    /\ UNCHANGED <<route, thread_starts, http_response>>
    /\ UNCHANGED <<pipeline_runner, w_callbacks, w_captured, pipeline_raised>>
    /\ UNCHANGED notWorker

\* thread.start()
EndpointStartThread(q) ==
    /\ e_pc[q] = "constructed"
    /\ e_pc' = [e_pc EXCEPT ![q] = "started"]
    /\ thread_starts' = [thread_starts EXCEPT ![q] = @ + 1]
    /\ IF w_pc[q] = "unborn"
       THEN /\ w_pc' = [w_pc EXCEPT ![q] = "prepare"]
            /\ w_runner' = [w_runner EXCEPT ![q] = "worker"]
       ELSE UNCHANGED <<w_pc, w_runner>>
    /\ UNCHANGED <<route, http_response>>
    /\ UNCHANGED <<pipeline_runner, w_callbacks, w_captured, pipeline_raised>>
    /\ UNCHANGED notWorker

\* the endpoint function returns; the framework answers 202
EndpointReturn(q) ==
    /\ e_pc[q] = "started"
    /\ e_pc' = [e_pc EXCEPT ![q] = "acknowledged"]
    /\ http_response' = [http_response EXCEPT ![q] = Acknowledgement]
    /\ UNCHANGED <<route, thread_starts>>
    /\ UNCHANGED workerVars
    /\ UNCHANGED notWorker

\* the worker function returns to whoever ran it
WorkerReturns(q) ==
    /\ w_pc' = [w_pc EXCEPT ![q] = "finished"]
    /\ e_pc' = IF w_runner[q] = "request"
               THEN [e_pc EXCEPT ![q] = "constructed"]
               ELSE e_pc

\* first try block: build the callback and the pipeline; on an exception
\* log it, capture_exception(e) and return
WorkerPrepare(q) ==
    /\ w_pc[q] = "prepare"
    /\ \/ /\ w_pc' = [w_pc EXCEPT ![q] = "run"]
          /\ UNCHANGED <<e_pc, w_captured>>
       \/ \E e \in PrepareErrors(route[q]) :
             /\ w_captured' = [w_captured EXCEPT ![q] = Append(@, e)]
             /\ WorkerReturns(q)
    /\ UNCHANGED <<route, thread_starts, http_response>>
    /\ UNCHANGED <<w_runner, pipeline_runner, w_callbacks, pipeline_raised>>
    /\ UNCHANGED notWorker

\* second try block: pipeline(dto=dto) is entered
WorkerCallPipeline(q) ==
    /\ w_pc[q] = "run"
    /\ w_pc' = [w_pc EXCEPT ![q] = "in_pipeline"]
    /\ pipeline_runner' = [pipeline_runner EXCEPT ![q] = w_runner[q]]
    /\ UNCHANGED endpointVars
    /\ UNCHANGED <<w_runner, w_callbacks, w_captured, pipeline_raised>>
    /\ UNCHANGED notWorker

\* pipeline(dto=dto) returns, having reported its own done or error
PipelineReturns(q) ==
    /\ w_pc[q] = "in_pipeline"
    /\ \E kind \in {"done", "error"} :
           w_callbacks' = [w_callbacks EXCEPT ![q] = Append(@, StatusCallback(kind, "pipeline"))]
    /\ WorkerReturns(q)
    /\ UNCHANGED <<route, thread_starts, http_response>>
    /\ UNCHANGED <<w_runner, pipeline_runner, w_captured, pipeline_raised>>
    /\ UNCHANGED notWorker

\* what a pipeline can have reported itself before it raises
SentBeforeRaising == { <<>>, <<StatusCallback("in_progress", "pipeline")>> }

\* the handler taken as logging only
PipelineRaisesUnreported(q) ==
    /\ w_pc[q] = "in_pipeline"
    /\ pipeline_raised' = [pipeline_raised EXCEPT ![q] = TRUE]
    /\ \E sent \in SentBeforeRaising :
           w_callbacks' = [w_callbacks EXCEPT ![q] = @ \o sent]
    /\ WorkerReturns(q)
    /\ UNCHANGED <<route, thread_starts, http_response>>
    /\ UNCHANGED <<w_runner, pipeline_runner, w_captured>>
    /\ UNCHANGED notWorker

\* pipeline(dto=dto) raises: callback.error("Fatal error.", exception=e)
PipelineRaises(q) ==
    /\ w_pc[q] = "in_pipeline"
    /\ pipeline_raised' = [pipeline_raised EXCEPT ![q] = TRUE]
    /\ \E sent \in SentBeforeRaising :
           w_callbacks' = [w_callbacks EXCEPT ![q] =
                              Append(@ \o sent, StatusCallback("error", "Fatal error."))]
    /\ WorkerReturns(q)
    /\ UNCHANGED <<route, thread_starts, http_response>>
    /\ UNCHANGED <<w_runner, pipeline_runner, w_captured>>
    /\ UNCHANGED notWorker

WorkerNext ==
    \E q \in Requests :
        \/ RequestArrives(q)
        \/ EndpointConstructThread(q)
        \/ EndpointStartThread(q)
        \/ EndpointReturn(q)
        \/ WorkerPrepare(q)
        \/ WorkerCallPipeline(q)
        \/ PipelineReturns(q)
        \/ PipelineRaises(q)

SpecWorker == WorkerInit /\ [][WorkerNext]_vars

\* a terminal status (done or error) has been sent for request q
TerminalSent(q) ==
    \E i \in 1..Len(w_callbacks[q]) : w_callbacks[q][i].kind \in {"done", "error"}

\* C16: every request handed to a worker results in a terminal status
\* callback (done or error), whether the pipeline succeeds or a step of
\* handling the request raises: a worker that has finished has sent one.
C16_WorkerEndsWithTerminalCallback ==
    \A q \in Requests : w_pc[q] = "finished" => TerminalSent(q)

\* C17: an endpoint starts exactly one new thread per accepted request and
\* returns its acknowledgement without waiting for the pipeline (its return
\* is enabled as soon as the thread is started); the pipeline of the request
\* runs only on that thread; the HTTP response never carries the result.
C17_OneWorkerThreadPerRequest ==
    \A q \in Requests :
        /\ thread_starts[q] = IF e_pc[q] \in {"started", "acknowledged"} THEN 1 ELSE 0
        /\ e_pc[q] = "started" => ENABLED EndpointReturn(q)
        /\ w_pc[q] # "unborn" => thread_starts[q] = 1
        /\ pipeline_runner[q] \in {"none", "worker"}
        /\ w_runner[q] \in {"none", "worker"}
        /\ e_pc[q] = "acknowledged" => http_response[q] = Acknowledgement
        /\ http_response[q] \in {NoResponse, Acknowledgement, Rejection}

\* one request acknowledged while its pipeline is still running on the
\* worker thread, another with its pipeline finished and reported
C17_Witness ==
    \E q, p \in Requests :
        /\ q # p
        /\ e_pc[q] = "acknowledged"
        /\ w_pc[q] = "in_pipeline"
        /\ pipeline_runner[q] = "worker"
        /\ e_pc[p] = "acknowledged"
        /\ w_pc[p] = "finished"
        /\ TerminalSent(p)

\* positions of the callback.error("Fatal error.") calls made for request q
FatalErrors(q) ==
    {i \in 1..Len(w_callbacks[q]) : w_callbacks[q][i] = StatusCallback("error", "Fatal error.")}

\* C27: an exception raised by pipeline(dto) inside a worker never escapes
\* the worker: the worker ends normally, having reported it through exactly
\* one callback.error("Fatal error.") call, its last callback; the answer to
\* the request never carries the exception; no other path sends that error.
C27_PipelineExceptionReportedOnce ==
    \A q \in Requests :
        /\ Cardinality(FatalErrors(q)) = IF pipeline_raised[q] THEN 1 ELSE 0
        /\ pipeline_raised[q] =>
               /\ w_pc[q] = "finished"
               /\ w_captured[q] = <<>>
               /\ Len(w_callbacks[q]) \in FatalErrors(q)
               /\ http_response[q] \in {NoResponse, Acknowledgement}

\* one pipeline raised after an in_progress status of its own, another one
\* returned: the first request got the fatal error, the second did not
C27_Witness ==
    \E q, p \in Requests :
        /\ q # p
        /\ pipeline_raised[q]
        /\ Len(w_callbacks[q]) = 2
        /\ w_pc[q] = "finished"
        /\ e_pc[q] = "acknowledged"
        /\ ~pipeline_raised[p]
        /\ w_pc[p] = "finished"
        /\ TerminalSent(p)

----------------------------------------------------------------------------
(* Specification SpecRewrite: LectureRetrieval.rewrite_student_query *)

\* longest chat history tried
MaxHistory == 11
\* range(min(10, len(chat_history)))
history_window == 10

\* message texts, and the histories built from them (oldest message first)
MessageTexts == {"a", "b"}
Histories == SeqsUpTo(MessageTexts, MaxHistory)
\* the texts the LLM is modelled to answer with
LLMTexts == {"rewritten query", ""}

Min(a, b) == IF a < b THEN a ELSE b

\* [chat_history[-i - 1]... for i in range(min(10, len(chat_history)))]
NewestFirst(history) ==
    [n \in 1..Min(history_window, Len(history)) |-> PyIndex(history, 0 - (n - 1) - 1)]

\* a variant of [::-1] that leaves the list as it is
NotReversed(xs) == xs

\* [::-1]
Reversed(xs) == [n \in 1..Len(xs) |-> xs[Len(xs) + 1 - n]]

\* "\n".join(f" {msg}" for msg in text_chat_history), as its list of lines
JoinLines(texts) == [n \in 1..Len(texts) |-> <<" ", texts[n]>>]

\* the variable parts of the prompt f-string
Prompt(history, query, language) ==
    LET text_chat_history == Reversed(NewestFirst(history))
    IN  [num_messages |-> Len(text_chat_history),
         messages_formatted |-> JoinLines(text_chat_history),
         student_query |-> query,
         course_language |-> language]

RewriteInit ==
    /\ MergeIdle
    /\ RetrievalIdle
    /\ TutorIdle
    /\ ChatIdle
    /\ WorkerIdle
    /\ MessagesIdle
    /\ CourseIdle
    /\ q_pc = "entry"
    /\ q_history \in Histories
    /\ q_prompt = NoPrompt
    /\ q_llm_calls = <<>>
    /\ q_result = "unset"

notRewrite == <<mergeVars, retrievalVars, tutorVars, chatVars, endpointVars, workerVars,
                messagesVars, courseVars>>

\* lines 100-132: the transcript and the prompt
RewriteBuildPrompt ==
    /\ q_pc = "entry"
    /\ q_prompt' = Prompt(q_history, student_query, "English")
    /\ q_pc' = "prompt"
    /\ UNCHANGED <<q_history, q_llm_calls, q_result>>
    /\ UNCHANGED notRewrite

\* lines 133-137: self.llm.chat([iris_message], ...) and the return of its text
RewriteCallLLM ==
    /\ q_pc = "prompt"
    /\ \/ \E text \in LLMTexts :
             /\ q_llm_calls' = Append(q_llm_calls, [prompt |-> q_prompt, text |-> text])
             /\ q_result' = text
             /\ q_pc' = "returned"
       \/ /\ q_llm_calls' = Append(q_llm_calls, [prompt |-> q_prompt, text |-> "raised"])
          /\ q_pc' = "raised"
          /\ UNCHANGED q_result
    /\ UNCHANGED <<q_history, q_prompt>>
    /\ UNCHANGED notRewrite

RewriteNext ==
    \/ RewriteBuildPrompt
    \/ RewriteCallLLM

SpecRewrite == RewriteInit /\ [][RewriteNext]_vars

\* C22: rewrite_student_query builds its transcript from exactly the last
\* min(10, n) messages of an n-message history, oldest first; for n = 0 the
\* transcript is empty; the LLM is called exactly once (also for n = 0) and
\* its text is returned as it is.
C22_TranscriptOfLastTenMessages ==
    LET n == Len(q_history)
        k == IF n < 10 THEN n ELSE 10
    IN  /\ q_pc \in {"prompt", "returned", "raised"} =>
              /\ q_prompt.num_messages = k
              /\ Len(q_prompt.messages_formatted) = k
              /\ \A i \in 1..k :
                     q_prompt.messages_formatted[i] = <<" ", q_history[n - k + i]>>
              /\ n = 0 => q_prompt.messages_formatted = <<>>
        /\ Len(q_llm_calls) <= 1
        /\ q_pc = "returned" =>
              /\ Len(q_llm_calls) = 1
              /\ q_llm_calls[1].prompt = q_prompt
              /\ q_result = q_llm_calls[1].text

\* a rewrite returned for a history longer than ten messages whose oldest
\* message differs from the one after it
C22_Witness ==
    /\ q_pc = "returned"
    /\ Len(q_history) = MaxHistory
    /\ q_history[1] # q_history[2]
    /\ q_history[2] # q_history[MaxHistory]
    /\ q_result = "rewritten query"

----------------------------------------------------------------------------
(* Specification SpecMessages: execute_call and the two messages routes    *)
(* (app/routes/messages.py, app/services/guidance_wrapper.py)               *)

MessageRoutes == {"/api/v1/messages", "/api/v2/messages"}
Models == {"GPT35_TURBO", "GPT4"}
\* what GuidanceWrapper.query can raise (its own ValueError, or an exception
\* of the guidance package re-raised), and the messages tried
QueryErrors ==
    {"KeyError", "SyntaxError", "SyntaxException", "IncompleteParseError",
     "ValueError", "RuntimeError"}
ErrorMessages == {"value error message", "The handlebars do not generate 'response'"}

\* the handlers of lines 51-56 applied to an exception of protected_call
MapQueryError(e) ==
    CASE e.class = "KeyError" -> Exc("MissingParameterException", e.message)
      [] e.class \in {"SyntaxError", "SyntaxException", "IncompleteParseError"}
             -> Exc("InvalidTemplateException", e.message)
      [] OTHER -> Exc("InternalServerException", e.message)

\* the answer the application gives for one of its exceptions
ErrorResponse(e) ==
    CASE e.class = "MissingParameterException" -> Http(400, "other.missing_parameter", e.message)
      [] e.class = "InvalidTemplateException" -> Http(400, "other.invalid_template", e.message)
      [] e.class = "InvalidModelException" -> Http(404, "other.invalid_model", e.message)
      [] e.class = "BadDataException" -> Http(422, "value_error.bad_data", e.message)
      [] OTHER -> Http(500, "other.internal_server_error", e.message)

MessagesInit ==
    /\ MergeIdle
    /\ RetrievalIdle
    /\ TutorIdle
    /\ ChatIdle
    /\ WorkerIdle
    /\ RewriteIdle
    /\ CourseIdle
    /\ x_pc = "received"
    /\ x_route \in MessageRoutes
    /\ preferred_model \in Models
    /\ x_query = NoExc
    /\ x_exc = NoExc
    /\ x_response = Http(0, "none", "none")

notMessages == <<mergeVars, retrievalVars, tutorVars, chatVars, endpointVars, workerVars,
                 rewriteVars, courseVars>>

\* the body is parsed into SendMessageRequest, or the framework answers 422
MessagesValidate ==
    /\ x_pc = "received"
    /\ \/ /\ x_pc' = "model"
          /\ UNCHANGED x_response
       \/ /\ x_pc' = "responded"
          /\ x_response' = Http(422, "value_error.missing", "field required")
    /\ UNCHANGED <<x_route, preferred_model, x_query, x_exc>>
    /\ UNCHANGED notMessages

\* lines 29-32: the model lookup
ExecuteCallModel ==
    /\ x_pc = "model"
    /\ \/ /\ x_pc' = "query"
          /\ UNCHANGED x_exc
       \/ /\ x_pc' = "raising"
          /\ x_exc' = Exc("InvalidModelException", preferred_model)
    /\ UNCHANGED <<x_route, preferred_model, x_query, x_response>>
    /\ UNCHANGED notMessages

\* lines 34-56: protected_call(func=guidance.query, ...) and its handlers
ExecuteCallQuery ==
    /\ x_pc = "query"
    /\ \/ \E generated \in {"response generated", "no response generated"} :
             /\ x_query' = Exc("returned", generated)
             /\ x_pc' = "respond"
             /\ UNCHANGED x_exc
       \/ \E class \in QueryErrors, message \in ErrorMessages :
             /\ x_query' = Exc(class, message)
             /\ x_exc' = MapQueryError(Exc(class, message))
             /\ x_pc' = "raising"
    /\ UNCHANGED <<x_route, preferred_model, x_response>>
    /\ UNCHANGED notMessages

\* send_message (lines 62-82) and send_message_v2 (lines 88-95) after
\* execute_call returned
SendMessage ==
    /\ x_pc = "respond"
    /\ IF x_route = "/api/v1/messages" /\ x_query.message = "no response generated"
       THEN /\ x_exc' = Exc("InternalServerException",
                            "The handlebars do not generate 'response'")
            /\ x_pc' = "raising"
            /\ UNCHANGED x_response
       ELSE /\ x_response' = Http(200, "none", preferred_model)
            /\ x_pc' = "responded"
            /\ UNCHANGED x_exc
    /\ UNCHANGED <<x_route, preferred_model, x_query>>
    /\ UNCHANGED notMessages

\* the exception leaves the route and the application answers it
MessagesAnswerError ==
    /\ x_pc = "raising"
    /\ x_response' = ErrorResponse(x_exc)
    /\ x_pc' = "responded"
    /\ UNCHANGED <<x_route, preferred_model, x_query, x_exc>>
    /\ UNCHANGED notMessages

MessagesNext ==
    \/ MessagesValidate
    \/ ExecuteCallModel
    \/ ExecuteCallQuery
    \/ SendMessage
    \/ MessagesAnswerError

SpecMessages == MessagesInit /\ [][MessagesNext]_vars

\* C25: when GuidanceWrapper.query raises a ValueError while POST
\* /api/v1/messages is handled, the request is answered with status 422 and
\* type value_error.bad_data carrying the ValueError's message, not as an
\* internal server error.
C25_ValueErrorIsBadData ==
    (/\ x_route = "/api/v1/messages"
     /\ x_query.class = "ValueError"
     /\ x_pc = "responded") =>
        x_response = Http(422, "value_error.bad_data", x_query.message)

----------------------------------------------------------------------------
(* Specification SpecCourse: CourseChatPipeline.__call__                    *)
(* (app/pipeline/chat/course_chat_pipeline.py)                              *)

\* most runs of the lecture tool tried in one invocation
MaxToolRuns == 2

\* what self.retriever(...) can return to the lecture tool
ParagraphLists == { <<>>, <<"paragraph">> }

\* `if self.retrieved_paragraphs` taken as `is not None`
ListIsNotNone(x) == x # None

\* `if self.retrieved_paragraphs`: None and the empty list are false
ListTruthy(x) == x # None /\ Len(x[1]) > 0

CourseInit ==
    /\ MergeIdle
    /\ RetrievalIdle
    /\ TutorIdle
    /\ ChatIdle
    /\ WorkerIdle
    /\ RewriteIdle
    /\ MessagesIdle
    /\ k_pc = "start"
    /\ lecture_tool = FALSE
    /\ retrieved_paragraphs = None
    /\ k_tool_runs = <<>>
    /\ k_out = "None"
    /\ k_cited = FALSE
    /\ k_callbacks = <<>>

notCourse == <<mergeVars, retrievalVars, tutorVars, chatVars, endpointVars, workerVars,
               rewriteVars, messagesVars>>

\* self.callback.<kind>(message)
Report(kind, message) == k_callbacks' = Append(k_callbacks, StatusCallback(kind, message))

\* the handler of lines 439-446
MainBodyRaises ==
    /\ Report("error", "An error occurred while running the course chat pipeline.")
    /\ k_pc' = "finished"

\* lines 118-310, before the try block: an exception here leaves __call__
CourseStart ==
    /\ k_pc = "start"
    /\ k_pc' \in {"setup", "raised"}
    /\ UNCHANGED <<lecture_tool, retrieved_paragraphs, k_tool_runs, k_out, k_cited, k_callbacks>>
    /\ UNCHANGED notCourse

\* lines 311-407: prompts, tool list, agent, and the first in_progress
CourseSetup ==
    /\ k_pc = "setup"
    /\ \/ /\ lecture_tool' \in BOOLEAN
          /\ Report("in_progress", "None")
          /\ k_pc' = "agent"
       \/ /\ MainBodyRaises
          /\ UNCHANGED lecture_tool
    /\ UNCHANGED <<retrieved_paragraphs, k_tool_runs, k_out, k_cited>>
    /\ UNCHANGED notCourse

\* the agent calls lecture_content_retrieval (lines 266-294)
CourseLectureTool ==
    /\ k_pc = "agent"
    /\ lecture_tool
    /\ Len(k_tool_runs) < MaxToolRuns
    /\ \/ \E found \in ParagraphLists :
             /\ retrieved_paragraphs' = Some(found)
             /\ k_tool_runs' = Append(k_tool_runs, found)
             /\ Report("in_progress", "Retrieving lecture content ...")
             /\ UNCHANGED k_pc
       \/ /\ k_callbacks' = k_callbacks
                 \o << StatusCallback("in_progress", "Retrieving lecture content ..."),
                       StatusCallback("error",
                           "An error occurred while running the course chat pipeline.") >>
          /\ k_pc' = "finished"
          /\ UNCHANGED <<retrieved_paragraphs, k_tool_runs>>
    /\ UNCHANGED <<lecture_tool, k_out, k_cited>>
    /\ UNCHANGED notCourse

\* lines 408-411: the agent loop ends, with or without an output, or raises
CourseAgentEnds ==
    /\ k_pc = "agent"
    /\ \/ /\ k_out' \in {"None", "answer"}
          /\ k_pc' = "cite"
          /\ UNCHANGED k_callbacks
       \/ /\ MainBodyRaises
          /\ UNCHANGED k_out
    /\ UNCHANGED <<lecture_tool, retrieved_paragraphs, k_tool_runs, k_cited>>
    /\ UNCHANGED notCourse

\* lines 413-415: the citation step
CourseCite ==
    /\ k_pc = "cite"
    /\ IF ListTruthy(retrieved_paragraphs)
       THEN \/ /\ Report("in_progress", "Augmenting response ...")
               /\ k_out' = "cited answer"
               /\ k_cited' = TRUE
               /\ k_pc' = "done"
            \/ /\ k_callbacks' = k_callbacks
                      \o << StatusCallback("in_progress", "Augmenting response ..."),
                            StatusCallback("error",
                                "An error occurred while running the course chat pipeline.") >>
               /\ k_pc' = "finished"
               /\ UNCHANGED <<k_out, k_cited>>
       ELSE /\ k_pc' = "done"
            /\ UNCHANGED <<k_out, k_cited, k_callbacks>>
    /\ UNCHANGED <<lecture_tool, retrieved_paragraphs, k_tool_runs>>
    /\ UNCHANGED notCourse

\* line 417: self.callback.done("Response created", final_result=out)
CourseDone ==
    /\ k_pc = "done"
    /\ \/ /\ Report("done", "Response created")
          /\ k_pc' = "suggestions"
       \/ MainBodyRaises
    /\ UNCHANGED <<lecture_tool, retrieved_paragraphs, k_tool_runs, k_out, k_cited>>
    /\ UNCHANGED notCourse

\* lines 419-438: self.callback.skip(...) inside its own try block
CourseSkipSuggestions ==
    /\ k_pc = "suggestions"
    /\ \/ Report("skip", "Skipping suggestion generation.")
       \/ Report("error", "Generating interaction suggestions failed.")
    /\ k_pc' = "finished"
    /\ UNCHANGED <<lecture_tool, retrieved_paragraphs, k_tool_runs, k_out, k_cited>>
    /\ UNCHANGED notCourse

CourseNext ==
    \/ CourseStart
    \/ CourseSetup
    \/ CourseLectureTool
    \/ CourseAgentEnds
    \/ CourseCite
    \/ CourseDone
    \/ CourseSkipSuggestions

SpecCourse == CourseInit /\ [][CourseNext]_vars

\* positions of the callbacks of one kind sent in this invocation
CourseSent(kind) == {i \in 1..Len(k_callbacks) : k_callbacks[i].kind = kind}
\* some run of the lecture tool returned at least one paragraph
SomeToolRunFoundParagraphs == \E i \in 1..Len(k_tool_runs) : Len(k_tool_runs[i]) > 0
\* the last run of the lecture tool returned at least one paragraph
LastToolRunFoundParagraphs ==
    /\ Len(k_tool_runs) > 0
    /\ Len(k_tool_runs[Len(k_tool_runs)]) > 0
\* the citation step (lines 413-415) is over and did not raise
PastCitationStep == k_pc \in {"done", "suggestions"}
MainBodyError == "An error occurred while running the course chat pipeline."
SuggestionsError == "Generating interaction suggestions failed."

\* C28 as stated: the citation pipeline is applied exactly when the lecture
\* tool ran in this invocation and returned at least one paragraph; the final
\* done is sent once, after that step; when a step of the main body raises,
\* the error callback is sent and no final done is sent.
C28_CitationWhenToolFoundParagraphs ==
    /\ PastCitationStep => (k_cited <=> SomeToolRunFoundParagraphs)
    /\ Cardinality(CourseSent("done")) <= 1
    /\ CourseSent("done") # {} => k_pc \in {"suggestions", "finished"}
    /\ k_pc = "finished" => (CourseSent("done") # {} \/ CourseSent("error") # {})
    /\ CourseSent("error") # {} => CourseSent("done") = {}

\* C28, amended: the citation pipeline is applied exactly when the LAST run
\* of the lecture tool in this invocation returned at least one paragraph;
\* the final done is sent at most once, after that step; a step that raises
\* before the done sends the main-body error and no done; a failure of the
\* step after the done sends the suggestions error after the done; never
\* more than one error is sent.
C28_CitationWhenLastToolRunFoundParagraphs ==
    /\ PastCitationStep => (k_cited <=> LastToolRunFoundParagraphs)
    /\ k_cited => LastToolRunFoundParagraphs
    /\ Cardinality(CourseSent("done")) <= 1
    /\ CourseSent("done") # {} => k_pc \in {"suggestions", "finished"}
    /\ k_pc = "finished" => (CourseSent("done") # {} \/ CourseSent("error") # {})
    /\ Cardinality(CourseSent("error")) <= 1
    /\ \A e \in CourseSent("error") :
          IF CourseSent("done") = {}
          THEN k_callbacks[e].message = MainBodyError
          ELSE /\ k_callbacks[e].message = SuggestionsError
               /\ \A d \in CourseSent("done") : d < e
    /\ k_pc = "raised" => k_callbacks = <<>>

\* the tool found paragraphs, then nothing; no citation was applied, the done
\* was sent, and the step after it failed
C28_Witness ==
    /\ k_pc = "finished"
    /\ k_tool_runs = << <<"paragraph">>, <<>> >>
    /\ ~k_cited
    /\ CourseSent("done") # {}
    /\ CourseSent("error") # {}

====
